---- MODULE Spec2Model ----
(***************************************************************************)
(* A model of the procurement-notice pipeline of Contract-tender:          *)
(*   - src/lib/filters.mjs : applyFilters, deriveProcurementStage, the     *)
(*     Find a Tender search with its chunked detail enrichment and the     *)
(*     release-package projector, containsAuthorityKeyword;                *)
(*   - src/app/api/search/route.ts : decodeHtmlEntities and the two        *)
(*     source mappers of the POST handler.                                 *)
(*                                                                         *)
(* JavaScript values are tagged records, so that undefined, null, "", 0    *)
(* and objects stay distinct: the code branches on exactly these           *)
(* differences (||, ??, typeof).  Strings are TLA+ strings, taken apart    *)
(* with Len and SubSeq.                                                    *)
(***************************************************************************)
EXTENDS Integers, Sequences, FiniteSets, TLC

VARIABLES
    pc,           \* position of the running search / of the function call
    nhsOnly,      \* searchFindATender's nhsOnly option
    submissions,  \* data.content of the listing response
    baseRecords,  \* searchFindATender's baseRecords
    index,        \* loop variable of the enrichment loop
    chunk,        \* the current chunk (slice of baseRecords)
    fetches,      \* per chunk slot: "idle", "inflight" or "settled"
    enriched,     \* per chunk slot: what the slot's async callback returned
    outcomes,     \* history: per base record, how its detail fetch ended
    hits,         \* searchFindATender's hits
    started,      \* history: number of detail fetches started so far
    result,       \* what searchFindATender returned (or threw)
    arg,          \* argument of the function under call (pure-function specs)
    ret,          \* its return value
    prev,         \* argument and return value of the call before it, if any
    page,         \* the search page's React state (loading, items, ..., error)
    requestCounterRef,  \* requestCounterRef.current of the search page
    requests,     \* the search page's fetches, by request id
    debounce      \* the pending effect of the search page: its timer and signal

\* the search page, which rests while the server side runs
pageVars == <<page, requestCounterRef, requests, debounce>>

vars == <<pc, nhsOnly, submissions, baseRecords, index, chunk, fetches,
          enriched, outcomes, hits, started, result, arg, ret, prev, pageVars>>

searchVars == <<nhsOnly, submissions, baseRecords, index, chunk, fetches,
                enriched, outcomes, hits, started, result, pageVars>>

callVars == <<arg, ret, prev, pageVars>>

-----------------------------------------------------------------------------
(* JavaScript values *)

Undefined == [js |-> "undefined"]
Null == [js |-> "null"]
Str(s) == [js |-> "string", s |-> s]
Num(n) == [js |-> "number", n |-> n]
Bool(b) == [js |-> "boolean", b |-> b]
Obj(o) == [js |-> "object", o |-> o]
Arr(a) == [js |-> "array", a |-> a]
\* a function object, such as the ones an object literal inherits from
\* Object.prototype (constructor, toString, ...)
Fn(name) == [js |-> "function", f |-> name]
\* the value of a call that threw, with the error's message
Thrown(msg) == [js |-> "thrown", msg |-> msg]

IsString(v) == v.js = "string"
IsObject(v) == v.js = "object"
IsArray(v) == v.js = "array"
IsThrown(v) == v.js = "thrown"
IsNullish(v) == v.js \in {"undefined", "null"}

\* Boolean(v)
Truthy(v) ==
    CASE v.js = "undefined" -> FALSE
      [] v.js = "null" -> FALSE
      [] v.js = "string" -> v.s # ""
      [] v.js = "number" -> v.n # 0
      [] v.js = "NaN" -> FALSE
      [] v.js = "millis" -> v.d # 0 \/ v.ms # 0
      [] v.js = "boolean" -> v.b
      [] OTHER -> TRUE

\* a || b
Or(a, b) == IF Truthy(a) THEN a ELSE b

\* a ?? b
Coalesce(a, b) == IF IsNullish(a) THEN b ELSE a

\* obj.field, for an object (a missing property reads undefined); reading a
\* property of a string or a number also gives undefined for the names used
\* here.  Reading a property of undefined or null throws in JavaScript: the
\* callers below guard it the way the code does (?. or || {}).
Get(v, field) ==
    IF IsObject(v) /\ field \in DOMAIN v.o THEN v.o[field] ELSE Undefined

\* { ...base, ...over }
Spread(base, over) == Obj(over.o @@ base.o)

-----------------------------------------------------------------------------
(* Strings *)

LowerAlpha == "abcdefghijklmnopqrstuvwxyz"
UpperAlpha == "ABCDEFGHIJKLMNOPQRSTUVWXYZ"
Digits == "0123456789"

CharAt(s, i) == SubSeq(s, i, i)

\* the characters of a string, as a set
CharsOf(s) == {CharAt(s, i) : i \in 1..Len(s)}

\* position of the one-character string c in alphabet, or 0
IndexIn(c, alphabet) ==
    IF \E i \in 1..Len(alphabet) : CharAt(alphabet, i) = c
    THEN CHOOSE i \in 1..Len(alphabet) : CharAt(alphabet, i) = c
    ELSE 0

UpperToLower == [c \in CharsOf(UpperAlpha) |-> CharAt(LowerAlpha, IndexIn(c, UpperAlpha))]
LowerToUpper == [c \in CharsOf(LowerAlpha) |-> CharAt(UpperAlpha, IndexIn(c, LowerAlpha))]

LowerChar(c) == IF c \in DOMAIN UpperToLower THEN UpperToLower[c] ELSE c

UpperChar(c) == IF c \in DOMAIN LowerToUpper THEN LowerToUpper[c] ELSE c

\* the case mappings are character by character, so that a text is mapped
\* half by half
RECURSIVE toLowerCase(_)
toLowerCase(s) ==
    IF Len(s) <= 1 THEN LowerChar(s)
    ELSE toLowerCase(SubSeq(s, 1, Len(s) \div 2))
             \o toLowerCase(SubSeq(s, Len(s) \div 2 + 1, Len(s)))

RECURSIVE toUpperCase(_)
toUpperCase(s) ==
    IF Len(s) <= 1 THEN UpperChar(s)
    ELSE toUpperCase(SubSeq(s, 1, Len(s) \div 2))
             \o toUpperCase(SubSeq(s, Len(s) \div 2 + 1, Len(s)))

\* s.includes(sub)
includes(s, sub) ==
    \E i \in 1..(Len(s) - Len(sub) + 1) : SubSeq(s, i, i + Len(sub) - 1) = sub

\* \w of a regular expression
WordChars == CharsOf(LowerAlpha) \cup CharsOf(UpperAlpha) \cup CharsOf(Digits) \cup {"_"}
IsWordChar(c) == c \in WordChars

\* [a-z0-9]
LowerAlnumChars == CharsOf(LowerAlpha) \cup CharsOf(Digits)
IsLowerAlnum(c) == c \in LowerAlnumChars

\* String(v), for the values that reach it here
JsString(v) ==
    CASE v.js = "string" -> v.s
      [] v.js = "undefined" -> "undefined"
      [] v.js = "null" -> "null"
      [] v.js = "boolean" -> IF v.b THEN "true" ELSE "false"
      [] v.js = "number" -> ToString(v.n)
      [] v.js = "NaN" -> "NaN"
      [] v.js = "function" -> "function Object() { [native code] }"
      [] OTHER -> "[object Object]"

\* value.replace(/[^a-z0-9]+/g, "")
RECURSIVE StripNonAlnum(_)
StripNonAlnum(s) ==
    IF Len(s) <= 1 THEN (IF IsLowerAlnum(s) THEN s ELSE "")
    ELSE StripNonAlnum(SubSeq(s, 1, Len(s) \div 2))
             \o StripNonAlnum(SubSeq(s, Len(s) \div 2 + 1, Len(s)))

\* array.flatMap(x => f(x)) for a sequence of sequences
RECURSIVE Flatten(_)
Flatten(ss) == IF ss = <<>> THEN <<>> ELSE Head(ss) \o Flatten(Tail(ss))

\* the set of the elements of a sequence
Range(seq) == {seq[i] : i \in 1..Len(seq)}

-----------------------------------------------------------------------------
(* Authority match: src/lib/filters.mjs 296-305 *)

FTS_AUTHORITY_KEYWORDS == <<"nhs", "nhs trust", "nhs foundation trust", "national health service">>

\* NHS_REGEX.test(s), NHS_REGEX = /(^|\W)nhs(\W|$)/i
NHS_REGEX(s) ==
    \E i \in 1..(Len(s) - 2) :
        /\ toLowerCase(SubSeq(s, i, i + 2)) = "nhs"
        /\ (i = 1 \/ ~IsWordChar(CharAt(s, i - 1)))
        /\ (i + 2 = Len(s) \/ ~IsWordChar(CharAt(s, i + 3)))

containsAuthorityKeyword(value) ==
    IF ~IsString(value) THEN FALSE
    ELSE IF NHS_REGEX(value.s) THEN TRUE
    ELSE LET upper == toUpperCase(value.s) IN
         IF includes(upper, "NHS") THEN TRUE
         ELSE \E k \in 1..Len(FTS_AUTHORITY_KEYWORDS) :
                  includes(upper, toUpperCase(FTS_AUTHORITY_KEYWORDS[k]))

\* [organisationName, organisationAddress, regionText, region, description,
\*  title].some(containsAuthorityKeyword)
matchesPreferredAuthority(notice) ==
    IF ~Truthy(notice) \/ ~IsObject(notice) THEN FALSE
    ELSE \E f \in {"organisationName", "organisationAddress", "regionText",
                   "region", "description", "title"} :
             containsAuthorityKeyword(Get(notice, f))

\* mutant: every notice passes the authority check
matchesAuthorityKeywords_Always(notice) == TRUE

matchesAuthorityKeywords(notice) ==
    \E f \in {"organisationName", "organisationAddress", "title",
              "description", "regionText", "region"} :
        containsAuthorityKeyword(Get(notice, f))

-----------------------------------------------------------------------------
(* Stage classifier: src/lib/filters.mjs 3-28, 125-157, 174-228, 260-288 *)

StageTokens == <<"pipeline", "planning", "tender", "award", "contract", "termination">>

STAGE_LABELS ==
    [pipeline |-> "Pipeline", planning |-> "Planning", tender |-> "Tender",
     award |-> "Award", contract |-> "Contract", termination |-> "Termination"]

STAGE_MATCHERS ==
    << [token |-> "pipeline", patterns |-> <<"pipeline", "futureopportunity">>],
       [token |-> "planning",
        patterns |-> <<"planning", "preprocurement", "priorinformation", "earlyengagement">>],
       [token |-> "tender",
        patterns |-> <<"tender", "contractnotice", "callforcompetition", "competition",
                       "corrigendum", "voluntaryexantetransparencynotice">>],
       [token |-> "award", patterns |-> <<"award", "contractaward">>],
       [token |-> "contract", patterns |-> <<"contract", "implementation">>],
       [token |-> "termination",
        patterns |-> <<"termination", "terminate", "cancel", "closed">>] >>

TYPE_ALIAS ==
    [contract |-> "contract", opportunity |-> "contract", pipeline |-> "pipeline",
     futureopportunity |-> "pipeline", preprocurement |-> "preprocurement",
     earlyengagement |-> "preprocurement"]

\* The property names an object literal inherits from Object.prototype that a
\* normalised token (lower-case letters and digits only) can spell.
ObjectPrototypeKeys == {"constructor"}

\* literal[key] for an object literal whose own properties are the record
\* `own`: the own string, an inherited function, or undefined
Lookup(own, key) ==
    IF key \in DOMAIN own THEN Str(own[key])
    ELSE IF key \in ObjectPrototypeKeys THEN Fn(key)
    ELSE Undefined

normaliseToken(value) ==
    IF ~Truthy(value) /\ value # Num(0) THEN ""
    ELSE StripNonAlnum(toLowerCase(JsString(value)))

\* mutant: the token is returned without the alias table
normaliseContractsFinderType_NoAlias(value) == Str(normaliseToken(value))

\* TYPE_ALIAS[token] || token : a string, or the inherited function
normaliseContractsFinderType(value) ==
    LET token == normaliseToken(value) IN
    IF token = "" THEN Str("") ELSE Or(Lookup(TYPE_ALIAS, token), Str(token))

\* candidate.includes(pattern) for some pattern; a candidate that is not a
\* string has no includes method, and the call throws
CandidateMatches(candidate, patterns) ==
    \E p \in 1..Len(patterns) : includes(candidate.s, patterns[p])

\* values.some(candidate => patterns.some(...)): "true", "false", or "throw"
\* when a non-string candidate is reached before a matching one
RECURSIVE SomeMatches(_, _)
SomeMatches(values, patterns) ==
    IF values = <<>> THEN "false"
    ELSE IF ~IsString(Head(values)) THEN "throw"
    ELSE IF CandidateMatches(Head(values), patterns) THEN "true"
    ELSE SomeMatches(Tail(values), patterns)

\* resolveStageToken: the first matcher, in STAGE_MATCHERS order, one of whose
\* patterns some candidate contains; "" when there is none
RECURSIVE ResolveFrom(_, _)
ResolveFrom(values, m) ==
    IF m > Len(STAGE_MATCHERS) THEN Str("")
    ELSE LET some == SomeMatches(values, STAGE_MATCHERS[m].patterns) IN
         IF some = "throw" THEN Thrown("candidate.includes is not a function")
         ELSE IF some = "true" THEN Str(STAGE_MATCHERS[m].token)
         ELSE ResolveFrom(values, m + 1)

resolveStageToken(values) == ResolveFrom(values, 1)

\* mutant: accepts only a token already spelt as a STAGE_LABELS key
normaliseProcurementStageToken_Exact(value) ==
    IF IsString(value) /\ value.s \in DOMAIN STAGE_LABELS THEN value.s ELSE ""

normaliseProcurementStageToken(value) ==
    LET token == normaliseToken(value) IN
    IF token = "" THEN ""
    ELSE IF Truthy(Lookup(STAGE_LABELS, token)) THEN token
    ELSE resolveStageToken(<<Str(token)>>).s

hasContractTiming(notice) ==
    \/ \E f \in {"start", "contractStart", "contractStartDate", "contractPeriodStart"} :
           Truthy(Get(notice, f))
    \/ Truthy(Get(Get(Get(notice, "contract"), "period"), "startDate"))

\* the push helper of collectStageCandidates: the tokens one value adds
RECURSIVE PushCandidate(_)
PushCandidate(value) ==
    IF value \in {Null, Undefined, Str("")} THEN <<>>
    ELSE IF IsArray(value)
         THEN Flatten([i \in 1..Len(value.a) |-> PushCandidate(value.a[i])])
    ELSE IF normaliseToken(value) # "" THEN <<Str(normaliseToken(value))>>
    ELSE <<>>

collectStageCandidates(notice) ==
    Flatten([i \in 1..9 |->
        PushCandidate(Get(notice,
            <<"procurementStage", "noticeStage", "stage", "stageName", "noticeType",
              "noticeStatus", "type", "status", "tags">>[i]))])
    \o (IF Truthy(Or(Get(notice, "awardedDate"), Get(notice, "awardedValue")))
        THEN <<Str("award")>> ELSE <<>>)
    \o (IF hasContractTiming(notice) THEN <<Str("contract")>> ELSE <<>>)
    \o (IF \E f \in {"end", "contractEnd", "contractEndDate", "terminationDate"} :
               Truthy(Get(notice, f))
        THEN <<Str("termination")>> ELSE <<>>)

\* mutant: the source test is dropped
IsContractsFinderSource_Any(source) == TRUE

IsContractsFinderSource(source) == source = "CF" \/ source = "CONTRACTS FINDER"

\* deriveProcurementStage: Str(label), Str("") when no stage is derivable, the
\* inherited function for an explicit stage spelling an Object.prototype name,
\* or Thrown when resolveStageToken throws
deriveProcurementStage(notice) ==
    IF ~Truthy(notice) \/ ~IsObject(notice) THEN Str("")
    ELSE
    LET explicitToken == normaliseProcurementStageToken(Get(notice, "procurementStage"))
        source == toUpperCase(JsString(Or(Get(notice, "source"), Str(""))))
        typeToken == normaliseContractsFinderType(Or(Get(notice, "noticeType"), Str("")))
        statusToken == normaliseToken(Or(Get(notice, "noticeStatus"), Str("")))
        candidates ==
            (IF Truthy(typeToken) THEN <<typeToken>> ELSE <<>>)
            \o collectStageCandidates(notice)
            \o (IF statusToken # "" THEN <<Str(statusToken)>> ELSE <<>>)
        resolved == resolveStageToken(candidates)
    IN
    IF explicitToken # "" THEN Lookup(STAGE_LABELS, explicitToken)
    ELSE IF IsContractsFinderSource(source) /\ typeToken = Str("pipeline")
         THEN Str(STAGE_LABELS.pipeline)
    ELSE IF IsContractsFinderSource(source) /\ typeToken = Str("preprocurement")
         THEN Str(STAGE_LABELS.planning)
    ELSE IF IsContractsFinderSource(source) /\ statusToken = "open"
         THEN Str(STAGE_LABELS.tender)
    ELSE IF IsContractsFinderSource(source) /\ statusToken = "awarded"
         THEN (IF hasContractTiming(notice) THEN Str(STAGE_LABELS.contract)
               ELSE Str(STAGE_LABELS.award))
    ELSE IF IsContractsFinderSource(source) /\ statusToken = "closed"
         THEN Str(STAGE_LABELS.termination)
    ELSE IF IsThrown(resolved) THEN resolved
    ELSE IF resolved.s # "" THEN Str(STAGE_LABELS[resolved.s])
    ELSE IF IsContractsFinderSource(source) /\ typeToken = Str("contract")
         THEN Str(STAGE_LABELS.tender)
    ELSE Str("")

-----------------------------------------------------------------------------
(* Numbers and dates: src/lib/filters.mjs 230-258 *)

\* Not-a-Number (typeof "number", falsy, unequal and unordered to everything)
NaN == [js |-> "NaN"]

\* A time value, the number d * 86400000 + ms of milliseconds since
\* 1970-01-01T00:00:00Z, kept as whole days and milliseconds of the day so
\* that present-day dates stay within the model checker's integers.
Millis(d, ms) == [js |-> "millis", d |-> d, ms |-> ms]

IsDigits(s) == s # "" /\ \A i \in 1..Len(s) : CharAt(s, i) \in CharsOf(Digits)

RECURSIVE ParseDigits(_)
ParseDigits(s) ==
    IF s = "" THEN 0
    ELSE 10 * ParseDigits(SubSeq(s, 1, Len(s) - 1)) + (IndexIn(CharAt(s, Len(s)), Digits) - 1)

\* Number(value)
ToNumber(v) ==
    CASE v.js = "number" -> v
      [] v.js = "string" -> IF v.s = "" THEN Num(0)
                            ELSE IF IsDigits(v.s) THEN Num(ParseDigits(v.s))
                            ELSE NaN
      [] v.js = "boolean" -> IF v.b THEN Num(1) ELSE Num(0)
      [] v.js = "null" -> Num(0)
      [] OTHER -> NaN

\* a < b for numbers (false when either is NaN)
NumLess(a, b) ==
    CASE a.js = "number" /\ b.js = "number" -> a.n < b.n
      [] a.js = "millis" /\ b.js = "millis" -> a.d < b.d \/ (a.d = b.d /\ a.ms < b.ms)
      [] OTHER -> FALSE

\* days from 1970-01-01 to the civil date y-m-d (proleptic Gregorian)
DaysFromCivil(y, m, d) ==
    LET yy == IF m <= 2 THEN y - 1 ELSE y
        era == yy \div 400
        yoe == yy - era * 400
        mp == IF m > 2 THEN m - 3 ELSE m + 9
        doy == (153 * mp + 2) \div 5 + d - 1
        doe == yoe * 365 + yoe \div 4 - yoe \div 100 + doy
    IN  era * 146097 + doe - 719468

\* the text matches the digit/separator picture, e.g. "dddd-dd-dd"
MatchesPicture(s, picture) ==
    /\ Len(s) = Len(picture)
    /\ \A i \in 1..Len(s) :
           IF CharAt(picture, i) = "d" THEN CharAt(s, i) \in CharsOf(Digits)
           ELSE CharAt(s, i) = CharAt(picture, i)

\* Date.parse(s) for the ISO forms YYYY-MM-DD, YYYY-MM-DDTHH:MM:SSZ and
\* YYYY-MM-DDTHH:MM:SS.mmmZ; any other text is not a date
DateParse(s) ==
    LET dateOnly == MatchesPicture(s, "dddd-dd-dd")
        seconds == MatchesPicture(s, "dddd-dd-ddTdd:dd:ddZ")
        millis == MatchesPicture(s, "dddd-dd-ddTdd:dd:dd.dddZ")
        y == ParseDigits(SubSeq(s, 1, 4))
        mo == ParseDigits(SubSeq(s, 6, 7))
        d == ParseDigits(SubSeq(s, 9, 10))
        h == ParseDigits(SubSeq(s, 12, 13))
        mi == ParseDigits(SubSeq(s, 15, 16))
        se == ParseDigits(SubSeq(s, 18, 19))
        ms == IF millis THEN ParseDigits(SubSeq(s, 21, 23)) ELSE 0
    IN  IF ~(dateOnly \/ seconds \/ millis) THEN NaN
        ELSE IF mo < 1 \/ mo > 12 \/ d < 1 \/ d > 31 THEN NaN
        ELSE IF dateOnly THEN Millis(DaysFromCivil(y, mo, d), 0)
        ELSE IF h > 23 \/ mi > 59 \/ se > 59 THEN NaN
        ELSE Millis(DaysFromCivil(y, mo, d), ((h * 60 + mi) * 60 + se) * 1000 + ms)

parseDateSafe(value) ==
    IF ~Truthy(value) THEN Null
    ELSE LET millis == DateParse(JsString(value)) IN
         IF millis = NaN THEN Null ELSE millis

parseNumberSafe(value) ==
    IF value \in {Null, Undefined, Str("")} THEN Null
    ELSE LET numeric == ToNumber(value) IN
         IF numeric = NaN THEN Null ELSE numeric

\* the common body of normaliseDateStart and normaliseDateEnd
normaliseDateAt(value, suffix) ==
    LET parsed == DateParse(JsString(value) \o suffix) IN
    IF parsed = NaN
    THEN LET fallback == DateParse(JsString(value)) IN
         IF fallback = NaN THEN Null ELSE fallback
    ELSE parsed

normaliseDateStart(value) == normaliseDateAt(value, "T00:00:00Z")

normaliseDateEnd(value) == normaliseDateAt(value, "T23:59:59Z")

-----------------------------------------------------------------------------
(* Filter engine: src/lib/filters.mjs 30-123, 159-172 *)

\* array.join(sep) of strings
RECURSIVE Join(_, _)
Join(parts, sep) ==
    IF parts = <<>> THEN ""
    ELSE IF Len(parts) = 1 THEN parts[1]
    ELSE parts[1] \o sep \o Join(Tail(parts), sep)

buildSearchableBlob(notice) ==
    toLowerCase(Join(
        [i \in 1..8 |->
            JsString(Or(Get(notice,
                <<"title", "description", "cpvCodes", "organisationName",
                  "organisationAddress", "regionText", "region", "noticeIdentifier">>[i]),
                Str("")))],
        " "))

\* the criteria applyFilters destructures, a missing list defaulting to []
NoCriteria ==
    [keywords |-> <<>>, types |-> <<>>, statuses |-> <<>>, procurementStages |-> <<>>,
     dateFrom |-> Undefined, dateTo |-> Undefined, valueFrom |-> Undefined,
     valueTo |-> Undefined, sources |-> <<>>]

\* lines 44-62: the normalised criteria
PrepareCriteria(c) ==
    [kw |-> SelectSeq([i \in 1..Len(c.keywords) |-> toLowerCase(c.keywords[i])],
                      LAMBDA k : k # ""),
     typeSet |-> {normaliseContractsFinderType(Str(t)) : t \in Range(c.types)} \ {Str("")},
     statusSet |-> {toLowerCase(t) : t \in Range(c.statuses)} \ {""},
     stageSet |-> {normaliseProcurementStageToken(Str(t)) : t \in Range(c.procurementStages)}
                      \ {""},
     minValue |-> IF c.valueFrom.js \in {"number", "NaN"} THEN c.valueFrom
                  ELSE IF Truthy(c.valueFrom) THEN ToNumber(c.valueFrom) ELSE Null,
     maxValue |-> IF c.valueTo.js \in {"number", "NaN"} THEN c.valueTo
                  ELSE IF Truthy(c.valueTo) THEN ToNumber(c.valueTo) ELSE Null,
     fromTime |-> IF Truthy(c.dateFrom) THEN normaliseDateStart(c.dateFrom) ELSE Null,
     toTime |-> IF Truthy(c.dateTo) THEN normaliseDateEnd(c.dateTo) ELSE Null,
     sourceSet |-> UNION {LET value == toUpperCase(t) IN
                          IF value = "" THEN {}
                          ELSE IF value \in {"FTS", "TD"} THEN {"FTS", "TD"}
                          ELSE {value} : t \in Range(c.sources)}]

\* lines 93-104: the date-range test of one notice
PassesDateRange(notice, f) ==
    IF ~(Truthy(f.fromTime) \/ Truthy(f.toTime)) THEN TRUE
    ELSE LET published == parseDateSafe(Get(notice, "publishedDate"))
             fallbackDates ==
                 SelectSeq([i \in 1..3 |->
                     parseDateSafe(Get(notice,
                         <<"lastNotifiableUpdate", "awardedDate", "deadlineDate">>[i]))],
                     LAMBDA v : v # Null)
             candidate == IF published # Null THEN published
                          ELSE IF fallbackDates # <<>> THEN fallbackDates[1] ELSE Null
         IN  /\ candidate # Null
             /\ ~(Truthy(f.fromTime) /\ NumLess(candidate, f.fromTime))
             /\ ~(Truthy(f.toTime) /\ NumLess(f.toTime, candidate))

\* mutant: within the value block a notice without any numeric value is dropped
PassesValueRange_RequiresValue(notice, f) ==
    IF f.minValue = Null /\ f.maxValue = Null THEN TRUE
    ELSE LET numericValues ==
                 SelectSeq([i \in 1..3 |->
                     parseNumberSafe(Get(notice, <<"valueLow", "valueHigh", "awardedValue">>[i]))],
                     LAMBDA v : v # Null)
         IN  \E i \in 1..Len(numericValues) :
                 /\ ~(f.minValue # Null /\ NumLess(numericValues[i], f.minValue))
                 /\ ~(f.maxValue # Null /\ NumLess(f.maxValue, numericValues[i]))

\* mutant: every numeric value has to lie in the range
PassesValueRange_AllFields(notice, f) ==
    IF f.minValue = Null /\ f.maxValue = Null THEN TRUE
    ELSE LET numericValues ==
                 SelectSeq([i \in 1..3 |->
                     parseNumberSafe(Get(notice, <<"valueLow", "valueHigh", "awardedValue">>[i]))],
                     LAMBDA v : v # Null)
         IN  \A i \in 1..Len(numericValues) :
                 /\ ~(f.minValue # Null /\ NumLess(numericValues[i], f.minValue))
                 /\ ~(f.maxValue # Null /\ NumLess(f.maxValue, numericValues[i]))

\* lines 106-119: the value-range test of one notice
PassesValueRange(notice, f) ==
    IF f.minValue = Null /\ f.maxValue = Null THEN TRUE
    ELSE LET numericValues ==
                 SelectSeq([i \in 1..3 |->
                     parseNumberSafe(Get(notice, <<"valueLow", "valueHigh", "awardedValue">>[i]))],
                     LAMBDA v : v # Null)
         IN  numericValues # <<>> =>
                 \E i \in 1..Len(numericValues) :
                     /\ ~(f.minValue # Null /\ NumLess(numericValues[i], f.minValue))
                     /\ ~(f.maxValue # Null /\ NumLess(f.maxValue, numericValues[i]))

\* lines 65-69: the source test, which runs before the stage is derived
PassesSource(notice, f) ==
    f.sourceSet # {} => toUpperCase(JsString(Or(Get(notice, "source"), Str("")))) \in f.sourceSet

\* lines 71-121: the tests after the source test
PassesRest(notice, f) ==
    LET noticeSource == toUpperCase(JsString(Or(Get(notice, "source"), Str(""))))
        isContractsFinder == noticeSource \in {"CF", "CONTRACTS FINDER"}
        isFindATender == noticeSource \in {"FTS", "TD", "FIND A TENDER"}
        stageToken == normaliseProcurementStageToken(deriveProcurementStage(notice))
        noteType == normaliseContractsFinderType(Or(Get(notice, "noticeType"), Str("")))
        noteStatus == normaliseToken(Or(Get(notice, "noticeStatus"), Str("")))
        blob == buildSearchableBlob(notice)
    IN  /\ (f.stageSet # {} /\ stageToken # "") => stageToken \in f.stageSet
        /\ (f.typeSet # {} /\ isContractsFinder) => (Truthy(noteType) /\ noteType \in f.typeSet)
        /\ (f.statusSet # {} /\ isContractsFinder)
               => (noteStatus # "" /\ noteStatus \in f.statusSet)
        /\ (isFindATender /\ f.kw # <<>>)
               => /\ \E k \in 1..Len(f.kw) : includes(blob, f.kw[k])
                  /\ matchesAuthorityKeywords(notice)
        /\ PassesDateRange(notice, f)
        /\ PassesValueRange(notice, f)

\* deriveProcurementStage(notice) throws inside the filter callback
StageThrows(notice, f) == PassesSource(notice, f) /\ IsThrown(deriveProcurementStage(notice))

\* mutant: the source test returns its result, so that a notice of a
\* requested source skips the other tests
KeepNotice_SourceReturns(notice, f) ==
    IF f.sourceSet # {} THEN PassesSource(notice, f) ELSE PassesRest(notice, f)

\* the callback of notices.filter
KeepNotice(notice, f) == PassesSource(notice, f) /\ PassesRest(notice, f)

\* mutant: the scan starts at the second kept notice
FilterList_SkipFirst(notices, f) ==
    LET kept == SelectSeq(notices, LAMBDA n : KeepNotice(n, f)) IN
    IF kept = <<>> THEN kept ELSE Tail(kept)

\* notices.filter(notice => ...)
FilterList(notices, f) == SelectSeq(notices, LAMBDA n : KeepNotice(n, f))

\* applyFilters(notices, criteria): the kept notices in input order, or Thrown
\* when deriving the stage of a notice that reaches line 71 throws
applyFilters(notices, c) ==
    LET f == PrepareCriteria(c) IN
    IF \E i \in 1..Len(notices) : StageThrows(notices[i], f)
    THEN Thrown("candidate.includes is not a function")
    ELSE Arr(FilterList(notices, f))

-----------------------------------------------------------------------------
(* Release-package projector: src/lib/filters.mjs 465-583, 710-757.        *)
(* The packages considered have tenders without items and without a        *)
(* suitability list, and awards without suppliers: for those, the fields   *)
(* computed by extractCpvInformation, extractRegionalInformation,          *)
(* extractSuitabilityFlags, extractSupplierNames and extractSupplierFlags  *)
(* are the ones written out in mapReleasePackageToNotice below.            *)

\* {}
EmptyObject == Obj([f \in {} |-> Undefined])

\* typeof v === "object" for a truthy v
IsObjectType(v) == IsObject(v) \/ IsArray(v)

\* { ...raw }
normalizeNotice(raw) == Obj(raw.o)

\* items.find(item => item.status && item.status.toLowerCase() === "active"):
\* the item, undefined, or Thrown when the scan reaches an item that is null
\* or whose truthy status is not a string
RECURSIVE FindActive(_)
FindActive(items) ==
    IF items = <<>> THEN Undefined
    ELSE LET item == Head(items)
             status == Get(item, "status")
         IN  IF IsNullish(item) THEN Thrown("Cannot read properties of null (reading 'status')")
             ELSE IF ~Truthy(status) THEN FindActive(Tail(items))
             ELSE IF ~IsString(status) THEN Thrown("item.status.toLowerCase is not a function")
             ELSE IF toLowerCase(status.s) = "active" THEN item
             ELSE FindActive(Tail(items))

selectAward(awards) ==
    IF ~IsArray(awards) THEN Null
    ELSE LET active == FindActive(awards.a) IN
         IF IsThrown(active) THEN active
         ELSE Or(Or(active, IF awards.a = <<>> THEN Undefined ELSE awards.a[1]), Null)

selectContract(contracts) ==
    IF ~IsArray(contracts) THEN Null
    ELSE LET active == FindActive(contracts.a) IN
         IF IsThrown(active) THEN active
         ELSE Or(Or(active, IF contracts.a = <<>> THEN Undefined ELSE contracts.a[1]), Null)

\* parties are objects; their roles, when an array, hold strings
selectBuyer(parties) ==
    IF ~IsArray(parties) THEN Null
    ELSE LET isBuyer(party) ==
                 LET roles == Get(party, "roles") IN
                 IsArray(roles) /\ \E r \in 1..Len(roles.a) :
                                       toLowerCase(JsString(roles.a[r])) = "buyer"
             found == SelectSeq(parties.a, isBuyer)
         IN  IF found = <<>> THEN Null ELSE found[1]

\* mutant: without an id match the first release is taken
MostRecentIndex_First(releases) == 1

\* index of sorted[0] after the stable sort by Date.parse(date || "") || 0,
\* most recent first: the first release whose time no other release exceeds
MostRecentIndex(releases) ==
    LET timeOf(r) == Or(DateParse(JsString(Or(Get(r, "date"), Str("")))), Millis(0, 0))
    IN  CHOOSE i \in 1..Len(releases) :
            /\ \A j \in 1..Len(releases) : ~NumLess(timeOf(releases[i]), timeOf(releases[j]))
            /\ \A j \in 1..(i - 1) : NumLess(timeOf(releases[j]), timeOf(releases[i]))

\* the releases of a package are objects
selectRelevantRelease(pkg, noticeId) ==
    LET releases == Get(pkg, "releases") IN
    IF ~Truthy(pkg) \/ ~IsArray(releases) THEN Null
    ELSE IF releases.a = <<>> THEN Null
    ELSE IF ~Truthy(noticeId) THEN releases.a[1]
    ELSE LET byId == SelectSeq(releases.a, LAMBDA release : Get(release, "id") = noticeId) IN
         IF byId # <<>> /\ Truthy(byId[1]) THEN byId[1]
         ELSE Or(releases.a[MostRecentIndex(releases.a)], Null)

\* extractBudgetValues(planning).primary; breakdown entries are objects
extractBudgetValues(planning) ==
    IF ~Truthy(planning) \/ ~IsObjectType(planning) THEN Null
    ELSE LET budgeting == Or(Get(planning, "budget"), EmptyObject)
             breakdown == Get(budgeting, "budgetBreakdown")
         IN  IF IsArray(breakdown) /\ breakdown.a # <<>>
             THEN LET withAmount == SelectSeq(breakdown.a,
                                        LAMBDA item : Truthy(Get(item, "amount"))) IN
                  IF withAmount = <<>> THEN Null ELSE Get(withAmount[1], "amount")
             ELSE IF Truthy(Get(budgeting, "amount")) THEN Get(budgeting, "amount")
             ELSE Null

\* address parts are taken as they are when strings (no surrounding blanks
\* in the addresses considered), non-strings count as ""
formatAddress(address) ==
    IF ~Truthy(address) \/ ~IsObjectType(address) THEN Null
    ELSE LET names == <<"streetAddress", "locality", "region", "postalCode",
                        "countryName", "description">>
             parts == SelectSeq(
                 [i \in 1..6 |-> IF IsString(Get(address, names[i]))
                                 THEN Get(address, names[i]).s ELSE ""],
                 LAMBDA part : part # "")
         IN  IF parts = <<>> THEN Null ELSE Str(Join(parts, ", "))

\* contract documents, when present, are an array of objects
determineNoticeType(release, contract, tender, fallback) ==
    LET documents == Get(contract, "documents")
        docs == IF IsArray(documents)
                THEN SelectSeq(documents.a, LAMBDA document : Truthy(Get(document, "noticeType")))
                ELSE <<>>
        tag == Get(release, "tag")
    IN  IF docs # <<>> THEN Get(docs[1], "noticeType")
        ELSE IF IsArray(tag) /\ tag.a # <<>>
        THEN Str(Join([i \in 1..Len(tag.a) |-> JsString(tag.a[i])], ", "))
        ELSE IF Truthy(Get(tender, "procedureType")) THEN Get(tender, "procedureType")
        ELSE Or(fallback, Null)

determineNoticeStatus(tender, award, fallback) ==
    IF Truthy(Get(tender, "status")) THEN Get(tender, "status")
    ELSE IF Truthy(Get(award, "status")) THEN Get(award, "status")
    ELSE Or(fallback, Null)

\* lines 473-527, given the release's tender and planning (or {}) and the
\* selected award, contract and buyer: the projected notice, or Thrown when
\* selectAward or selectContract threw
ProjectParts(base, release, tender, planning, award, contract, buyer) ==
    LET tenderValue == Or(Or(Get(tender, "value"), extractBudgetValues(planning)), EmptyObject)
        periods == Or(Get(tender, "tenderPeriod"), EmptyObject)
        enquiryPeriod == Or(Get(tender, "enquiryPeriod"), EmptyObject)
        address == Get(buyer, "address")
        classification == Get(tender, "classification")
        id == Get(base, "id")
    IN  IF IsThrown(award) THEN award
        ELSE IF IsThrown(contract) THEN contract
        ELSE normalizeNotice(Spread(base, Obj([
            source |-> Str("FTS"),
            link |-> Or(Get(base, "link"),
                        IF Truthy(id)
                        THEN Str("https://www.find-tender.service.gov.uk/Notice/" \o JsString(id))
                        ELSE Null),
            title |-> Or(Or(Get(tender, "title"), Get(release, "title")), Null),
            description |-> Or(Or(Get(tender, "description"), Get(release, "description")), Null),
            noticeType |-> determineNoticeType(release, contract, tender, Get(base, "noticeType")),
            noticeStatus |-> determineNoticeStatus(tender, award, Get(base, "noticeStatus")),
            organisationName |-> Or(Get(buyer, "name"), Null),
            organisationAddress |-> formatAddress(address),
            noticeIdentifier |-> Or(Or(Get(base, "noticeIdentifier"), Get(release, "id")), Null),
            cpvCodes |-> Or(Get(classification, "id"), Null),
            cpvCodesExtended |-> Null,
            cpvDescription |-> Or(Get(classification, "description"), Null),
            cpvDescriptionExpanded |-> Null,
            valueLow |-> Coalesce(Coalesce(Coalesce(Get(tenderValue, "amount"),
                             Get(tenderValue, "minimumAmount")),
                             Get(tenderValue, "amountNet")), Null),
            valueHigh |-> Coalesce(Get(tenderValue, "maximumAmount"), Null),
            awardedValue |-> Coalesce(Coalesce(Coalesce(
                                 Get(Get(contract, "value"), "amount"),
                                 Get(Get(contract, "value"), "amountGross")),
                                 Get(Get(award, "value"), "amount")), Null),
            awardedSupplier |-> Null,
            publishedDate |-> Or(Or(Get(release, "date"), Get(base, "publishedDate")), Null),
            deadlineDate |-> Or(Or(Get(periods, "endDate"), Get(enquiryPeriod, "endDate")), Null),
            awardedDate |-> Or(Or(Get(award, "date"), Get(contract, "dateSigned")), Null),
            approachMarketDate |-> Or(Or(Get(periods, "startDate"),
                                         Get(enquiryPeriod, "startDate")), Null),
            start |-> Or(Get(Get(contract, "period"), "startDate"), Null),
            end |-> Or(Get(Get(contract, "period"), "endDate"), Null),
            postcode |-> Or(Get(address, "postalCode"), Null),
            region |-> Or(Get(address, "region"), Null),
            regionText |-> Or(Get(address, "countryName"), Null),
            coordinates |-> Null,
            isSuitableForSme |-> Null,
            isSuitableForVco |-> Null,
            awardedToSme |-> Null,
            awardedToVcse |-> Null,
            lastNotifiableUpdate |-> Or(Or(Get(release, "date"),
                                           Get(base, "lastNotifiableUpdate")), Null)])))

\* lines 467-479, given the selected release: the base record when there
\* is none
ProjectRelease(base, release) ==
    IF ~Truthy(release) THEN normalizeNotice(base)
    ELSE ProjectParts(base, release,
                      Or(Get(release, "tender"), EmptyObject),
                      Or(Get(release, "planning"), EmptyObject),
                      selectAward(Get(release, "awards")),
                      selectContract(Get(release, "contracts")),
                      selectBuyer(Get(release, "parties")))

mapReleasePackageToNotice(base, pkg) ==
    ProjectRelease(base, selectRelevantRelease(pkg, Get(base, "id")))

-----------------------------------------------------------------------------
(* Find a Tender search with detail enrichment: src/lib/filters.mjs        *)
(* 307-393, 455-463                                                        *)

DETAIL_CHUNK_SIZE == 5

\* lines 351-364: the base record of one listing entry
BaseRecord(entry) ==
    LET submissionId == Or(Get(entry, "submission_id"), Get(entry, "submissionId"))
        reference == Or(Or(Or(Or(Get(entry, "no_doc_ext"), Get(entry, "noDocExt")),
                        Get(entry, "ref_no_doc_ojs")), Get(entry, "refNoDocOjs")), Null)
    IN  Obj([id |-> submissionId,
             source |-> Str("FTS"),
             link |-> IF Truthy(submissionId)
                      THEN Str("https://www.find-tender.service.gov.uk/Notice/"
                               \o JsString(submissionId))
                      ELSE Null,
             publishedDate |-> Or(Or(Get(entry, "received_at"), Get(entry, "receivedAt")), Null),
             noticeStatus |-> Or(Get(entry, "status"), Null),
             noticeType |-> Or(Or(Or(Get(entry, "form"), Get(entry, "notice_type")),
                               Get(entry, "noticeType")), Null),
             noticeIdentifier |-> reference,
             parentId |-> Or(Or(Get(entry, "ref_submission_id"), Get(entry, "refSubmissionId")),
                             Null),
             lastNotifiableUpdate |-> Or(Or(Get(entry, "status_updated_at"),
                                            Get(entry, "statusUpdatedAt")), Null)])

\* submissions.map(...).filter(record => record.id)
BaseRecordsOf(entries) ==
    SelectSeq([i \in 1..Len(entries) |-> BaseRecord(entries[i])],
              LAMBDA record : Truthy(Get(record, "id")))

\* fetchReleasePackage, given the response of its request: null for 404,
\* Thrown for another status outside 200-299, the body otherwise
fetchReleasePackage(response) ==
    IF response.status = 404 THEN Null
    ELSE IF ~(response.status \in 200..299)
    THEN Thrown("Find a Tender release " \o ToString(response.status))
    ELSE response.body

\* try { ... } catch { handler }: the handler's value when the body threw
Catch(value, handler) == IF IsThrown(value) THEN handler ELSE value

\* lines 373-374, given what fetchReleasePackage returned or threw
ProjectFetched(base, releasePackage) ==
    IF IsThrown(releasePackage) THEN releasePackage
    ELSE mapReleasePackageToNotice(base, releasePackage)

\* mutant: the callback without its try/catch
EnrichCallback_NoCatch(base, response) ==
    ProjectFetched(base, fetchReleasePackage(response))

\* lines 371-379: the async callback of one chunk slot, run to its end once
\* the response of its fetch is there
EnrichCallback(base, response) ==
    Catch(ProjectFetched(base, fetchReleasePackage(response)), normalizeNotice(base))

\* mutant: results are stored in the order the promises fulfil
PromiseAllStore_CompletionOrder(results, i, value) ==
    LET free == CHOOSE k \in 1..Len(results) :
                    results[k] = Undefined /\ \A j \in 1..(k - 1) : results[j] # Undefined
    IN  [results EXCEPT ![free] = value]

\* Promise.all: the value of the i-th promise becomes the i-th result
PromiseAllStore(results, i, value) == [results EXCEPT ![i] = value]

\* mutant: the loop goes on as soon as one promise of the chunk has settled
AllSettled_Any(slots) == \E i \in 1..Len(slots) : slots[i] = "settled"

\* await Promise.all(...) resumes once every promise of the chunk is fulfilled
AllSettled(slots) == \A i \in 1..Len(slots) : slots[i] = "settled"

-----------------------------------------------------------------------------
(* The search as a process: the listing request, then per chunk the        *)
(* start of its detail fetches, the settling of each fetch in any order,   *)
(* and the gather; Find a Tender's answers are the environment's choice.   *)

MaxSubmissions == 8

\* entry k of Find a Tender's listing: the second entry has no submission
\* id; the others are numbered N1, N2, ... and use snake_case keys when the
\* number is odd, camelCase keys when it is even
Entry(k) ==
    LET i == IF k = 1 THEN 1 ELSE k - 1 IN
    IF k = 2 THEN Obj([status |-> Str("PUBLISHED")])
    ELSE IF i % 2 = 1
    THEN Obj([submission_id |-> Str("N" \o ToString(i)),
              received_at |-> Str("2024-06-01T09:00:00Z"),
              status |-> Str("PUBLISHED"),
              form |-> Str("F02")])
    ELSE Obj([submissionId |-> Str("N" \o ToString(i)),
              receivedAt |-> Str("2024-06-01T09:00:00Z"),
              status |-> Str("PUBLISHED"),
              noDocExt |-> Str("2024-00" \o ToString(i))])

\* data.content: a page of the first n entries of the listing
ListingContents == {[k \in 1..n |-> Entry(k)] : n \in 0..MaxSubmissions}

\* a release with a tender, one buyer party and the given awards
Release(id, buyerName, awards) ==
    Obj([id |-> Str(id),
         date |-> Str("2024-06-02T10:00:00Z"),
         tag |-> Arr(<<Str("tender")>>),
         tender |-> Obj([title |-> Str("Scanner maintenance"),
                         status |-> Str("active"),
                         value |-> Obj([amount |-> Num(1000), currency |-> Str("GBP")]),
                         tenderPeriod |-> Obj([endDate |-> Str("2024-07-01T12:00:00Z")])]),
         parties |-> Arr(<<Obj([name |-> Str(buyerName),
                                roles |-> Arr(<<Str("supplier"), Str("Buyer")>>),
                                address |-> Obj([locality |-> Str("Leeds"),
                                                 countryName |-> Str("United Kingdom")])])>>),
         awards |-> awards])

\* the release package Find a Tender holds for a submission id: every third
\* one has a null award (the projector throws on it), every third one a
\* buyer that is no health body; N4's release carries another id than the
\* submission's
PackageOf(id) ==
    LET i == ParseDigits(SubSeq(id, 2, Len(id))) IN
    Obj([releases |-> Arr(<<
        CASE i % 3 = 2 -> Release(id, "Leeds Teaching Hospitals NHS Trust", Arr(<<Null>>))
          [] i % 3 = 0 -> Release(id, "Leeds City Council", Undefined)
          [] i = 4 -> Release("ocds-" \o id, "Leeds Teaching Hospitals NHS Trust", Arr(<<>>))
          [] OTHER -> Release(id, "Leeds Teaching Hospitals NHS Trust", Undefined)>>)])

\* the responses a detail request for the id can get
DetailResponses(id) ==
    {[status |-> 404], [status |-> 500], [status |-> 200, body |-> PackageOf(id)]}

Min(a, b) == IF a < b THEN a ELSE b

\* src/app/page.tsx 151-156, 180: the page's state before its first effect
PageIdle ==
    /\ page = [loading |-> FALSE, items |-> <<>>, selectedNoticeId |-> Null,
               resultCount |-> 0, counts |-> Null, error |-> Null]
    /\ requestCounterRef = 0
    /\ requests = <<>>
    /\ debounce = [timer |-> "none", request |-> 0]

Init ==
    /\ PageIdle
    /\ pc = "listing"
    /\ nhsOnly \in BOOLEAN
    /\ submissions \in ListingContents
    /\ baseRecords = <<>>
    /\ index = 0
    /\ chunk = <<>>
    /\ fetches = <<>>
    /\ enriched = <<>>
    /\ outcomes = <<>>
    /\ hits = <<>>
    /\ started = 0
    /\ result = Undefined
    /\ arg = Undefined
    /\ ret = Undefined
    /\ prev = Undefined

\* line 346: the listing response is not ok
ListingFails ==
    /\ pc = "listing"
    /\ pc' = "failed"
    /\ result' = Thrown("Find a Tender API 500")
    /\ UNCHANGED <<nhsOnly, submissions, baseRecords, index, chunk, fetches, enriched,
                   outcomes, hits, started, callVars>>

\* lines 348-368: the listing arrives, the base records are built
ListingArrives ==
    /\ pc = "listing"
    /\ baseRecords' = BaseRecordsOf(submissions)
    /\ outcomes' = [j \in 1..Len(baseRecords') |-> Undefined]
    /\ hits' = <<>>
    /\ index' = 0
    /\ pc' = "loop"
    /\ UNCHANGED <<nhsOnly, submissions, chunk, fetches, enriched, started, result, callVars>>

\* lines 368-373: the next chunk is sliced and every callback of chunk.map
\* runs up to its await, which starts the chunk's detail requests
StartChunk ==
    /\ pc = "loop"
    /\ index < Len(baseRecords)
    /\ chunk' = SubSeq(baseRecords, index + 1,
                       Min(index + DETAIL_CHUNK_SIZE, Len(baseRecords)))
    /\ fetches' = [i \in 1..Len(chunk') |-> "inflight"]
    /\ enriched' = [i \in 1..Len(chunk') |-> Undefined]
    /\ started' = started + Len(chunk')
    /\ pc' = "await"
    /\ UNCHANGED <<nhsOnly, submissions, baseRecords, index, outcomes, hits, result, callVars>>

\* the slot's promise settles with the callback's value; a callback that
\* rejected would reject Promise.all and with it the search
SettleSlot(i, releasePackage, value) ==
    /\ fetches' = [fetches EXCEPT ![i] = "settled"]
    /\ outcomes' = [outcomes EXCEPT ![index + i] = releasePackage]
    /\ IF IsThrown(value)
       THEN pc' = "failed" /\ result' = value /\ UNCHANGED enriched
       ELSE enriched' = PromiseAllStore(enriched, i, value) /\ UNCHANGED <<pc, result>>

\* lines 373-378 and 455-463: the response of one slot's request arrives and
\* the slot's callback runs to its end
DetailSettles ==
    /\ pc = "await"
    /\ \E i \in 1..Len(chunk) :
           /\ fetches[i] = "inflight"
           /\ \E response \in DetailResponses(Get(chunk[i], "id").s) :
                  SettleSlot(i, fetchReleasePackage(response),
                             EnrichCallback(chunk[i], response))
    /\ UNCHANGED <<nhsOnly, submissions, baseRecords, index, chunk, hits, started, callVars>>

\* mutant: only the first notice of a chunk is pushed
GatherChunk_FirstOnly ==
    /\ pc = "await"
    /\ AllSettled(fetches)
    /\ hits' = hits \o SubSeq(enriched, 1, 1)
    /\ index' = index + DETAIL_CHUNK_SIZE
    /\ chunk' = <<>>
    /\ fetches' = <<>>
    /\ enriched' = <<>>
    /\ pc' = "loop"
    /\ UNCHANGED <<nhsOnly, submissions, baseRecords, outcomes, started, result, callVars>>

\* lines 370, 381 and 368: Promise.all is fulfilled, the chunk's notices are
\* pushed and the loop variable advances
GatherChunk ==
    /\ pc = "await"
    /\ AllSettled(fetches)
    /\ hits' = hits \o SelectSeq(enriched, Truthy)
    /\ index' = index + DETAIL_CHUNK_SIZE
    /\ chunk' = <<>>
    /\ fetches' = <<>>
    /\ enriched' = <<>>
    /\ pc' = "loop"
    /\ UNCHANGED <<nhsOnly, submissions, baseRecords, outcomes, started, result, callVars>>

\* line 392, given filteredHits; the listing response carries no total, so
\* that total is hits.length
SearchResult(filteredHits) ==
    Obj([hits |-> Arr(filteredHits),
         hitCount |-> Num(IF nhsOnly THEN Len(filteredHits) ELSE Len(hits)),
         nextCursor |-> Null])

\* lines 384-392: the loop is over
Finish ==
    /\ pc = "loop"
    /\ index >= Len(baseRecords)
    /\ result' = SearchResult(IF nhsOnly THEN SelectSeq(hits, matchesPreferredAuthority)
                              ELSE hits)
    /\ pc' = "done"
    /\ UNCHANGED <<nhsOnly, submissions, baseRecords, index, chunk, fetches, enriched,
                   outcomes, hits, started, callVars>>

Next ==
    \/ ListingFails
    \/ ListingArrives
    \/ StartChunk
    \/ DetailSettles
    \/ GatherChunk
    \/ Finish

Spec == Init /\ [][Next]_vars

\* the detail step of base record j failed: its fetch rejected, or the
\* projection of the package it got throws
DetailFailed(j) ==
    \/ IsThrown(outcomes[j])
    \/ IsThrown(mapReleasePackageToNotice(baseRecords[j], outcomes[j]))

\* C1: a failing detail fetch or projection never fails the search (only the
\* listing request can, before any detail fetch has started); the record
\* concerned contributes exactly its base record, and every other record's
\* notice is the projection of its own package, whatever failed around it.
C1_FailureIsolated ==
    /\ pc = "failed" => started = 0
    /\ \A j \in 1..Len(hits) :
           hits[j] = IF DetailFailed(j) THEN baseRecords[j]
                     ELSE mapReleasePackageToNotice(baseRecords[j], outcomes[j])

\* a finished search in which one fetch was rejected, one projection threw
\* and one record was enriched from its package
C1_Witness ==
    /\ pc = "done"
    /\ \E a, b, c \in 1..Len(hits) :
           /\ IsThrown(outcomes[a])
           /\ IsObject(outcomes[b]) /\ DetailFailed(b)
           /\ IsObject(outcomes[c]) /\ ~DetailFailed(c)
           /\ Get(hits[c], "organisationName") # Undefined

\* C2: with nhsOnly = true, every base record whose detail fetch failed or
\* returned not-found is among the returned hits, as its base record.
C2_FailedStillReturned ==
    (pc = "done" /\ nhsOnly) =>
        \A j \in 1..Len(baseRecords) :
            (IsThrown(outcomes[j]) \/ outcomes[j] = Null)
                => baseRecords[j] \in Range(Get(result, "hits").a)

\* C3: the collected notices are in the order of their base records, within
\* the chunk being gathered and across the chunks gathered so far, whatever
\* order the fetches settle in.
C3_InputOrder ==
    /\ \A j \in 1..Len(hits) : Get(hits[j], "id") = Get(baseRecords[j], "id")
    /\ \A i \in 1..Len(enriched) :
           enriched[i] # Undefined => Get(enriched[i], "id") = Get(chunk[i], "id")

\* the first chunk is gathered and, in the second, a later slot has settled
\* while an earlier one is still in flight
C3_Witness ==
    /\ pc = "await"
    /\ Len(hits) = DETAIL_CHUNK_SIZE
    /\ \E i, k \in 1..Len(chunk) :
           i < k /\ fetches[i] = "inflight" /\ fetches[k] = "settled" /\ enriched[k] # Undefined

\* the detail fetches started and not yet settled
InFlight == {j \in 1..started : outcomes[j] = Undefined}

\* C4: at most DETAIL_CHUNK_SIZE detail fetches are in flight, and while a
\* fetch of one chunk is unsettled no fetch of a later chunk has started.
C4_BoundedChunks ==
    /\ Cardinality(InFlight) <= DETAIL_CHUNK_SIZE
    /\ \A j, k \in 1..started :
           (j - 1) \div DETAIL_CHUNK_SIZE < (k - 1) \div DETAIL_CHUNK_SIZE
               => outcomes[j] # Undefined

\* the second chunk's fetches are in flight after a full first chunk
C4_Witness ==
    /\ started > DETAIL_CHUNK_SIZE
    /\ InFlight # {}
    /\ \A j \in 1..DETAIL_CHUNK_SIZE : outcomes[j] # Undefined

-----------------------------------------------------------------------------
(* decodeHtmlEntities: src/app/api/search/route.ts 6-13, 54-71 *)

NAMED_HTML_ENTITIES ==
    [amp |-> "&", lt |-> "<", gt |-> ">", quot |-> "\"", apos |-> "'", nbsp |-> " "]

\* the characters with code points 32 to 95 and 97 to 126, in code point
\* order
Ascii ==
    " !\"#$%&'()*+,-./0123456789:;<=>?@ABCDEFGHIJKLMNOPQRSTUVWXYZ[\\]^_abcdefghijklmnopqrstuvwxyz{|}~"

HexDigits == "0123456789abcdef"

\* length of the longest run of characters of the set, ignoring case, that
\* starts at position i of s
RECURSIVE RunLength(_, _, _)
RunLength(s, i, chars) ==
    IF i <= Len(s) /\ LowerChar(CharAt(s, i)) \in chars
    THEN 1 + RunLength(s, i + 1, chars) ELSE 0

\* Number.parseInt(digits, radix) for a non-empty run of digits of the radix
RECURSIVE parseInt(_, _)
parseInt(digits, radix) ==
    IF digits = "" THEN 0
    ELSE radix * parseInt(SubSeq(digits, 1, Len(digits) - 1), radix)
             + (IndexIn(LowerChar(CharAt(digits, Len(digits))), HexDigits) - 1)

\* String.fromCodePoint(n): a RangeError above 0x10FFFF; of the valid code
\* points, those of Ascii are the ones the entities considered here name
fromCodePoint(n) ==
    CASE n > 1114111 -> Thrown("Invalid code point " \o ToString(n))
      [] n \in 32..95 -> Str(CharAt(Ascii, n - 31))
      [] n \in 97..126 -> Str(CharAt(Ascii, n - 32))

\* s.slice(from - 1, to): the characters at positions from..to that exist
Slice(s, from, to) == SubSeq(s, from, Min(to, Len(s)))

\* the text of first followed by the text of rest; what either threw, the
\* first one first
Concat(first, rest) ==
    IF IsThrown(first) THEN first
    ELSE IF IsThrown(rest) THEN rest
    ELSE Str(first.s \o rest.s)

\* the position of the ";" that ends a match of /&#x([0-9a-f]+);/i when hex,
\* of /&#(\d+);/ otherwise, starting at position i of s; 0 when there is no
\* such match
NumericEntityEnd(s, i, hex) ==
    LET from == IF hex THEN i + 3 ELSE i + 2
        run == RunLength(s, from, CharsOf(IF hex THEN HexDigits ELSE Digits))
    IN  IF /\ IF hex THEN toLowerCase(Slice(s, i, i + 2)) = "&#x"
                     ELSE Slice(s, i, i + 1) = "&#"
           /\ run > 0
           /\ Slice(s, from + run, from + run) = ";"
        THEN from + run ELSE 0

\* the least element of a set of positions, 0 for the empty set
Least(positions) ==
    IF positions = {} THEN 0
    ELSE CHOOSE k \in positions : \A j \in positions : k <= j

\* s.replace(/&#x([0-9a-f]+);/gi, ...) when hex, s.replace(/&#(\d+);/g, ...)
\* otherwise, from position i on: the text up to the next match, the
\* replacement callback's character for the match, and the same for the
\* text after the match; Str(text) or Thrown
RECURSIVE ReplaceNumeric(_, _, _)
ReplaceNumeric(s, i, hex) ==
    LET at == Least({k \in i..Len(s) : NumericEntityEnd(s, k, hex) # 0})
        end == NumericEntityEnd(s, at, hex)
    IN  IF at = 0 THEN Str(Slice(s, i, Len(s)))
        ELSE Concat(Concat(Str(SubSeq(s, i, at - 1)),
                           fromCodePoint(parseInt(
                               SubSeq(s, IF hex THEN at + 3 ELSE at + 2, end - 1),
                               IF hex THEN 16 ELSE 10))),
                    ReplaceNumeric(s, end + 1, hex))

\* NAMED_HTML_ENTITIES[name.toLowerCase()] ?? "&name;": the table is an
\* object literal, so that the one lower-case name Object.prototype has,
\* constructor, reads the Object function, which replace turns into text
NamedEntityText(name) ==
    IF toLowerCase(name) \in DOMAIN NAMED_HTML_ENTITIES
    THEN NAMED_HTML_ENTITIES[toLowerCase(name)]
    ELSE IF toLowerCase(name) = "constructor" THEN "function Object() { [native code] }"
    ELSE "&" \o name \o ";"

\* the position of the ";" that ends a match of /&([a-z]+);/i starting at
\* position i of s; 0 when there is no such match
NamedEntityEnd(s, i) ==
    LET run == RunLength(s, i + 1, CharsOf(LowerAlpha))
    IN  IF /\ CharAt(s, i) = "&"
           /\ run > 0
           /\ Slice(s, i + 1 + run, i + 1 + run) = ";"
        THEN i + 1 + run ELSE 0

\* s.replace(/&([a-z]+);/gi, ...), from position i on
RECURSIVE ReplaceNamed(_, _)
ReplaceNamed(s, i) ==
    LET at == Least({k \in i..Len(s) : NamedEntityEnd(s, k) # 0})
        end == NamedEntityEnd(s, at)
    IN  IF at = 0 THEN Slice(s, i, Len(s))
        ELSE SubSeq(s, i, at - 1) \o NamedEntityText(SubSeq(s, at + 1, end - 1))
                 \o ReplaceNamed(s, end + 1)

\* one numeric replace of the chain, on what the replace before it returned
\* or threw
DecodeNumeric(text, hex) ==
    IF IsThrown(text) THEN text ELSE ReplaceNumeric(text.s, 1, hex)

\* the named replace that ends the chain
DecodeNamed(text) ==
    IF IsThrown(text) THEN text ELSE Str(ReplaceNamed(text.s, 1))

\* null and undefined are returned as they are; a value that is no string
\* has no replace method
decodeHtmlEntities(value) ==
    IF IsNullish(value) THEN value
    ELSE IF ~IsString(value) THEN Thrown("value.replace is not a function")
    ELSE IF value.s = "" THEN Str("")
    ELSE DecodeNamed(DecodeNumeric(DecodeNumeric(value, TRUE), FALSE))

-----------------------------------------------------------------------------
(* POST /api/search: src/app/api/search/route.ts 216-379 *)

\* typeof decoded === "string" ? decoded : fallback
DecodedOr(decoded, fallback) == IF IsString(decoded) THEN decoded ELSE fallback

\* the first Thrown of the values, or Undefined when none is
FirstThrown(values) ==
    LET thrown == SelectSeq(values, IsThrown) IN
    IF thrown = <<>> THEN Undefined ELSE thrown[1]

\* statements in sequence: what the first threw, else the value of the rest
Try(first, rest) == IF IsThrown(first) THEN first ELSE rest

\* mutant: the derived stage is attached as it is
StageOrNull_Raw(stageLabel) == stageLabel

\* stageLabel || null
StageOrNull(stageLabel) == Or(stageLabel, Null)

\* lines 301-302 and 325-326: the notice with its derived stage attached
WithProcurementStage(notice) ==
    LET stageLabel == deriveProcurementStage(notice) IN
    IF IsThrown(stageLabel) THEN stageLabel
    ELSE Spread(notice, Obj([procurementStage |-> StageOrNull(stageLabel)]))

\* lines 265-302, given the decoded texts of lines 258-263
ContractsFinderNotice(item, decoded) ==
    LET orNull(f) == Coalesce(Get(item, f), Null) IN
    Try(FirstThrown(<<decoded["title"], decoded["description"],
                      decoded["organisationName"], decoded["cpvDescription"],
                      decoded["cpvDescriptionExpanded"], decoded["awardedSupplier"]>>),
        WithProcurementStage(Obj([
            id |-> Get(item, "id"),
            parentId |-> orNull("parentId"),
            source |-> Str("CF"),
            title |-> DecodedOr(decoded["title"], Get(item, "title")),
            noticeIdentifier |-> orNull("noticeIdentifier"),
            description |-> DecodedOr(decoded["description"], orNull("description")),
            link |-> Str("https://www.contractsfinder.service.gov.uk/Notice/"
                         \o JsString(Get(item, "id"))),
            noticeType |-> Get(item, "noticeType"),
            noticeStatus |-> Get(item, "noticeStatus"),
            organisationName |-> DecodedOr(decoded["organisationName"],
                                           orNull("organisationName")),
            organisationAddress |-> Null,
            cpvCodes |-> Get(item, "cpvCodes"),
            cpvCodesExtended |-> orNull("cpvCodesExtended"),
            cpvDescription |-> DecodedOr(decoded["cpvDescription"], orNull("cpvDescription")),
            cpvDescriptionExpanded |-> DecodedOr(decoded["cpvDescriptionExpanded"],
                                                 orNull("cpvDescriptionExpanded")),
            valueLow |-> Get(item, "valueLow"),
            valueHigh |-> Get(item, "valueHigh"),
            awardedValue |-> Get(item, "awardedValue"),
            awardedSupplier |-> DecodedOr(decoded["awardedSupplier"],
                                          orNull("awardedSupplier")),
            publishedDate |-> Get(item, "publishedDate"),
            deadlineDate |-> Get(item, "deadlineDate"),
            awardedDate |-> Get(item, "awardedDate"),
            start |-> orNull("start"),
            end |-> orNull("end"),
            approachMarketDate |-> orNull("approachMarketDate"),
            postcode |-> orNull("postcode"),
            region |-> orNull("region"),
            regionText |-> orNull("regionText"),
            coordinates |-> orNull("coordinates"),
            isSuitableForSme |-> orNull("isSuitableForSme"),
            isSuitableForVco |-> orNull("isSuitableForVco"),
            awardedToSme |-> orNull("awardedToSme"),
            awardedToVcse |-> orNull("awardedToVcse"),
            lastNotifiableUpdate |-> Coalesce(Coalesce(Get(item, "lastNotifableUpdate"),
                                         Get(item, "lastNotifiableUpdate")), Null)])))

\* lines 257-303: the mapper of a Contracts Finder hit; Thrown when
\* decodeHtmlEntities or deriveProcurementStage throws
MapContractsFinderHit(item) ==
    ContractsFinderNotice(item,
        [f \in {"title", "description", "organisationName", "cpvDescription",
                "cpvDescriptionExpanded", "awardedSupplier"}
            |-> decodeHtmlEntities(Get(item, f))])

\* lines 314-326, given the decoded texts of lines 306-312
FindATenderNotice(item, decoded) ==
    LET orNull(f) == Coalesce(Get(item, f), Null) IN
    Try(FirstThrown(<<decoded["title"], decoded["description"],
                      decoded["organisationName"], decoded["organisationAddress"],
                      decoded["awardedSupplier"], decoded["cpvDescription"],
                      decoded["cpvDescriptionExpanded"]>>),
        WithProcurementStage(Spread(item, Obj([
            source |-> Str("FTS"),
            title |-> DecodedOr(decoded["title"],
                                Coalesce(Get(item, "title"), Str("Find a Tender notice"))),
            description |-> DecodedOr(decoded["description"], orNull("description")),
            organisationName |-> DecodedOr(decoded["organisationName"],
                                           orNull("organisationName")),
            organisationAddress |-> DecodedOr(decoded["organisationAddress"],
                                              orNull("organisationAddress")),
            awardedSupplier |-> DecodedOr(decoded["awardedSupplier"],
                                          orNull("awardedSupplier")),
            cpvDescription |-> DecodedOr(decoded["cpvDescription"], orNull("cpvDescription")),
            cpvDescriptionExpanded |-> DecodedOr(decoded["cpvDescriptionExpanded"],
                                                 orNull("cpvDescriptionExpanded"))]))))

\* lines 305-327: the mapper of a Find a Tender hit
MapFindATenderHit(item) ==
    FindATenderNotice(item,
        [f \in {"title", "description", "organisationName", "organisationAddress",
                "awardedSupplier", "cpvDescription", "cpvDescriptionExpanded"}
            |-> decodeHtmlEntities(Get(item, f))])

\* one step of the sort of line 341: last is put behind the notices of
\* sorted that are not older than it; new Date(publishedDate || 0).getTime()
\* is NaN for a text that is no date, and a NaN difference leaves the two in
\* place
InsertByPublishedDate(sorted, last) ==
    LET time(n) == IF Truthy(Get(n, "publishedDate"))
                   THEN DateParse(JsString(Get(n, "publishedDate")))
                   ELSE Millis(0, 0)
        \* the elements of sorted that stay in front of last
        front == IF \E k \in 1..Len(sorted) : ~NumLess(time(sorted[k]), time(last))
                 THEN CHOOSE k \in 1..Len(sorted) :
                          /\ ~NumLess(time(sorted[k]), time(last))
                          /\ \A j \in (k + 1)..Len(sorted) :
                                 NumLess(time(sorted[j]), time(last))
                 ELSE 0
    IN  SubSeq(sorted, 1, front) \o <<last>> \o SubSeq(sorted, front + 1, Len(sorted))

\* line 341: filtered.sort by publishedDate, most recent first, as a stable
\* insertion sort
RECURSIVE SortByPublishedDate(_)
SortByPublishedDate(notices) ==
    IF Len(notices) <= 1 THEN notices
    ELSE InsertByPublishedDate(SortByPublishedDate(SubSeq(notices, 1, Len(notices) - 1)),
                               notices[Len(notices)])

\* lines 341-378, given what applyFilters returned or what was thrown before
\* it returned: the JSON response, status 500 from the catch block
JsonResponse(filtered) ==
    IF IsThrown(filtered)
    THEN Obj([status |-> Num(500), success |-> Bool(FALSE), error |-> Str(filtered.msg)])
    ELSE Obj([status |-> Num(200), success |-> Bool(TRUE),
              count |-> Num(Len(filtered.a)),
              items |-> Arr(SortByPublishedDate(filtered.a))])

\* lines 329-339, given the mapped notices of both sources
FilterCombined(combined, criteria) ==
    Try(FirstThrown(combined), applyFilters(combined, criteria))

\* the POST handler, given the request body and what the two searches
\* returned
POST(body, cfHits, ftsHits) ==
    LET keywords == IF "keywords" \in DOMAIN body THEN body.keywords ELSE <<>>
        types == IF "types" \in DOMAIN body THEN body.types ELSE <<>>
        statuses == IF "statuses" \in DOMAIN body THEN body.statuses ELSE <<>>
        procurementStages == IF "procurementStages" \in DOMAIN body
                             THEN body.procurementStages ELSE <<>>
        dateFrom == IF "dateFrom" \in DOMAIN body THEN Or(body.dateFrom, Null) ELSE Null
        dateTo == IF "dateTo" \in DOMAIN body THEN Or(body.dateTo, Null) ELSE Null
        normalisedSources == IF "sources" \in DOMAIN body THEN body.sources
                             ELSE <<"CF", "FTS">>
        cf == IF "CF" \in Range(normalisedSources) THEN cfHits ELSE <<>>
        fts == IF "FTS" \in Range(normalisedSources) THEN ftsHits ELSE <<>>
    IN  JsonResponse(FilterCombined(
            [i \in 1..Len(cf) |-> MapContractsFinderHit(cf[i])]
                \o [i \in 1..Len(fts) |-> MapFindATenderHit(fts[i])],
            [keywords |-> keywords, types |-> types, statuses |-> statuses,
             procurementStages |-> procurementStages, dateFrom |-> dateFrom,
             dateTo |-> dateTo, valueFrom |-> Undefined, valueTo |-> Undefined,
             sources |-> normalisedSources]))

-----------------------------------------------------------------------------
(* Calls of the pure functions: the argument is drawn from a bounded set,  *)
(* the call stores the function's return value.                            *)

\* the Find a Tender search is not running
SearchIdle ==
    /\ PageIdle
    /\ nhsOnly = TRUE
    /\ submissions = <<>>
    /\ baseRecords = <<>>
    /\ index = 0
    /\ chunk = <<>>
    /\ fetches = <<>>
    /\ enriched = <<>>
    /\ outcomes = <<>>
    /\ hits = <<>>
    /\ started = 0
    /\ result = Undefined
    /\ prev = Undefined

\* all concatenations of at most n of the given fragments
RECURSIVE Concats(_, _)
Concats(fragments, n) ==
    IF n = 0 THEN {""}
    ELSE LET shorter == Concats(fragments, n - 1) IN
         shorter \cup {s \o f : s \in shorter, f \in fragments}

(* containsAuthorityKeyword *)

MaxFragments == 3

AuthorityFragments ==
    {"nhs", "NHS", "Cor", "hire", " ", "-", "_", "nh", "s",
     "National Health Service", " trust"}

AuthorityInputs ==
    {Str(s) : s \in Concats(AuthorityFragments, MaxFragments)}
        \cup {Null, Undefined, Num(0), Num(7), Bool(TRUE), Arr(<<Str("nhs")>>)}

InitAuthority == pc = "call" /\ arg \in AuthorityInputs /\ ret = Undefined /\ SearchIdle

CallContainsAuthorityKeyword ==
    /\ pc = "call"
    /\ ret' = Bool(containsAuthorityKeyword(arg))
    /\ pc' = "return"
    /\ UNCHANGED <<arg, prev, searchVars>>

SpecAuthority == InitAuthority /\ [][CallContainsAuthorityKeyword]_vars

\* "nhs" as a whole word: delimited on each side by a non-word character or
\* by an end of the string, in any letter case
NhsWholeWord(s) ==
    \E i \in 1..(Len(s) - 2) :
        /\ toLowerCase(SubSeq(s, i, i + 2)) = "nhs"
        /\ (i > 1 => ~IsWordChar(CharAt(s, i - 1)))
        /\ (i + 2 < Len(s) => ~IsWordChar(CharAt(s, i + 3)))

ContainsAuthorityPhrase(s) ==
    \E phrase \in {"nhs trust", "nhs foundation trust", "national health service"} :
        includes(toLowerCase(s), phrase)

\* C5: containsAuthorityKeyword returns true exactly for a string that holds
\* "nhs" as a whole word or one of the fixed phrases; "nhs" inside a longer
\* word, or a non-string, gives false.
C5_WholeWordOnly ==
    pc = "return" =>
        ret = Bool(IsString(arg) /\ (NhsWholeWord(arg.s) \/ ContainsAuthorityPhrase(arg.s)))

(* deriveProcurementStage *)

StageSources == {Str("CF"), Str("contracts finder"), Str("FTS")}

StageExplicit ==
    {Undefined, Null, Str("Pipeline"), Str("PLANNING"), Str("tender"), Str("A-ward"),
     Str(" Contract "), Str("Termination"), Str("bogus")}

StageTypes ==
    {Undefined, Str("Pipeline"), Str("FutureOpportunity"), Str("EarlyEngagement"),
     Str("Contract"), Str("Opportunity"), Str("constructor"), Str("Other")}

StageStatuses == {Undefined, Str("Open"), Str("Awarded"), Str("Closed"), Str("Withdrawn")}

\* the contract-start fields hasContractTiming reads, at most one populated
StageTimings ==
    {[start |-> Null, contract |-> Undefined],
     [start |-> Str("2024-07-01"), contract |-> Undefined],
     [start |-> Null, contract |-> Obj([period |-> Obj([startDate |-> Str("2024-07-01")])])]}

StageAwards ==
    {[awardedDate |-> Null, awardedValue |-> Null],
     [awardedDate |-> Str("2024-05-01"), awardedValue |-> Null],
     [awardedDate |-> Null, awardedValue |-> Num(0)]}

StageEnds == {Null, Str("2025-07-01")}

StageTags == {Undefined, Arr(<<Str("x"), Str("Planning")>>)}

StageNotices ==
    {Obj([source |-> src, procurementStage |-> ps, noticeType |-> ty, noticeStatus |-> st,
          tags |-> tg, end |-> en] @@ tm @@ aw) :
        src \in StageSources, ps \in StageExplicit, ty \in StageTypes,
        st \in StageStatuses, tm \in StageTimings, aw \in StageAwards,
        en \in StageEnds, tg \in StageTags}

InitStage == pc = "call" /\ arg \in StageNotices /\ ret = Undefined /\ SearchIdle

CallDeriveProcurementStage ==
    /\ pc = "call"
    /\ ret' = deriveProcurementStage(arg)
    /\ pc' = "return"
    /\ UNCHANGED <<arg, prev, searchVars>>

SpecStage == InitStage /\ [][CallDeriveProcurementStage]_vars

\* a value, lower-cased, without anything but letters and digits
Canon(v) == IF IsString(v) THEN StripNonAlnum(toLowerCase(v.s)) ELSE ""

StageLabelSet == {"Pipeline", "Planning", "Tender", "Award", "Contract", "Termination"}

\* the label an explicit stage field spells, "" if none
ExplicitLabel(v) ==
    IF \E l \in StageLabelSet : Canon(v) = Canon(Str(l))
    THEN CHOOSE l \in StageLabelSet : Canon(v) = Canon(Str(l))
    ELSE ""

\* C6: a notice whose procurementStage field spells one of the six labels
\* (in any letter case and punctuation) is classified as that label, whatever
\* its source, type, status, dates and values.
C6_ExplicitStageWins ==
    (pc = "return" /\ ExplicitLabel(Get(arg, "procurementStage")) # "")
        => ret = Str(ExplicitLabel(Get(arg, "procurementStage")))

\* an explicit "A-ward" on a Contracts Finder pipeline-type or open notice
C6_Witness ==
    /\ pc = "return"
    /\ Get(arg, "procurementStage") = Str("A-ward")
    /\ Get(arg, "source") = Str("CF")
    /\ Get(arg, "noticeStatus") = Str("Open")
    /\ Get(arg, "noticeType") = Str("Pipeline")
    /\ ret = Str("Award")

\* the Contracts Finder shortcut rules of the claim, first match first
ShortcutLabel(n) ==
    LET ty == Canon(Get(n, "noticeType"))
        st == Canon(Get(n, "noticeStatus"))
    IN  IF ty \in {"pipeline", "futureopportunity"} THEN "Pipeline"
        ELSE IF ty \in {"preprocurement", "earlyengagement"} THEN "Planning"
        ELSE IF st = "open" THEN "Tender"
        ELSE IF st = "awarded"
             THEN (IF hasContractTiming(n) THEN "Contract" ELSE "Award")
        ELSE IF st = "closed" THEN "Termination"
        ELSE ""

NoExplicitStage(n) == normaliseProcurementStageToken(Get(n, "procurementStage")) = ""

IsSourceA(n) == toUpperCase(JsString(Get(n, "source"))) \in {"CF", "CONTRACTS FINDER"}

\* a notice that carries nothing but its source and status
OnlyStatus(n) ==
    /\ ~Truthy(Get(n, "noticeType"))
    /\ ~Truthy(Get(n, "tags"))
    /\ ~Truthy(Get(n, "awardedDate")) /\ ~Truthy(Get(n, "awardedValue"))
    /\ ~hasContractTiming(n)
    /\ ~Truthy(Get(n, "end"))

\* C7: on a source-A notice without explicit stage the shortcut rules apply in
\* the order pipeline type, pre-procurement type, open, awarded (Contract with
\* a contract start, else Award), closed; on a source-B notice they do not
\* (an open status alone gives no stage, awarded with a contract start does
\* not give Contract).
C7_ShortcutOrder ==
    (pc = "return" /\ NoExplicitStage(arg)) =>
        /\ (IsSourceA(arg) /\ ShortcutLabel(arg) # "") => ret = Str(ShortcutLabel(arg))
        /\ (~IsSourceA(arg) /\ Canon(Get(arg, "noticeStatus")) = "open" /\ OnlyStatus(arg))
               => ret = Str("")
        /\ (~IsSourceA(arg) /\ Canon(Get(arg, "noticeStatus")) = "awarded"
                /\ hasContractTiming(arg))
               => ret # Str("Contract")

\* scenario A: source A, type Pipeline, status Open
C7_Witness ==
    /\ pc = "return"
    /\ NoExplicitStage(arg)
    /\ Get(arg, "source") = Str("CF")
    /\ Get(arg, "noticeType") = Str("Pipeline")
    /\ Get(arg, "noticeStatus") = Str("Open")
    /\ ret = Str("Pipeline")

(* applyFilters *)

MaxNotices == 2

\* a notice with every field applyFilters reads absent
BlankNotice ==
    [source |-> Undefined, noticeType |-> Undefined, noticeStatus |-> Undefined,
     title |-> Undefined, organisationName |-> Undefined, publishedDate |-> Undefined,
     lastNotifiableUpdate |-> Undefined, valueLow |-> Undefined, awardedValue |-> Undefined]

FilterPool ==
    { Obj([BlankNotice EXCEPT !.source = Str("CF"), !.noticeType = Str("Opportunity"),
              !.noticeStatus = Str("Open"), !.title = Str("Cloud hosting"),
              !.publishedDate = Str("2024-06-15T12:00:00Z"), !.valueLow = Num(1000)]),
      Obj([BlankNotice EXCEPT !.source = Str("CF"), !.noticeType = Str("Pipeline"),
              !.noticeStatus = Str("Awarded"), !.title = Str("NHS cloud pipeline"),
              !.lastNotifiableUpdate = Str("2024-06-17"), !.valueLow = Str("3000"),
              !.awardedValue = Num(100)]),
      Obj([BlankNotice EXCEPT !.source = Str("FTS"), !.noticeType = Str("Contract Notice"),
              !.noticeStatus = Str("active"), !.title = Str("Cloud services"),
              !.organisationName = Str("Leeds NHS Trust"),
              !.publishedDate = Str("2024-06-16T23:59:59.500Z")]),
      Obj([BlankNotice EXCEPT !.source = Str("td"), !.title = Str("Road works"),
              !.organisationName = Str("Acme Ltd"), !.publishedDate = Str("1970-01-01"),
              !.awardedValue = Num(2000)]),
      Obj([BlankNotice EXCEPT !.source = Str("CF"), !.noticeType = Str("constructor")]) }

\* all sequences over S of length at most n
RECURSIVE SeqsUpTo(_, _)
SeqsUpTo(S, n) ==
    IF n = 0 THEN {<<>>}
    ELSE LET shorter == SeqsUpTo(S, n - 1) IN
         shorter \cup {Append(q, x) : q \in shorter, x \in S}

FilterCriteria ==
    {[NoCriteria EXCEPT !.keywords = kw, !.types = ts[1], !.statuses = ts[2],
                        !.procurementStages = ps, !.dateFrom = dt[1], !.dateTo = dt[2],
                        !.valueFrom = vl[1], !.valueTo = vl[2]] :
        kw \in {<<>>, <<"Cloud", "">>},
        ts \in {<< <<>>, <<>> >>, << <<"Contract">>, <<>> >>, << <<>>, <<"Open">> >>},
        ps \in {<<>>, <<"tender", "Award">>},
        dt \in {<<Undefined, Undefined>>, <<Str("2024-06-15"), Str("2024-06-16")>>,
                <<Str("someday"), Null>>},
        vl \in {<<Undefined, Undefined>>, <<Num(500), Str("2000")>>, <<Str("abc"), Null>>}}

\* the sources lists a caller may add
FilterSources == {<<"CF">>, <<"fts">>, <<"">>}

InitFilter ==
    /\ pc = "call"
    /\ arg \in [notices : SeqsUpTo(FilterPool, MaxNotices), criteria : FilterCriteria]
    /\ ret = Undefined
    /\ SearchIdle

\* applyFilters(xs, c)
CallApplyFilters ==
    /\ pc = "call"
    /\ ret' = applyFilters(arg.notices, arg.criteria)
    /\ pc' = "return"
    /\ UNCHANGED <<arg, prev, searchVars>>

\* applyFilters(xs, {...c, sources}), after applyFilters(xs, c)
CallApplyFiltersWithSources ==
    /\ pc = "return"
    /\ \E sources \in FilterSources :
           /\ arg' = [arg EXCEPT !.criteria.sources = sources]
           /\ ret' = applyFilters(arg.notices, arg'.criteria)
    /\ prev' = [arg |-> arg, ret |-> ret]
    /\ pc' = "sources"
    /\ UNCHANGED searchVars

\* applyFilters(applyFilters(xs, c), c)
CallApplyFiltersAgain ==
    /\ pc \in {"return", "sources"}
    /\ IsArray(ret)
    /\ arg' = [arg EXCEPT !.notices = ret.a]
    /\ ret' = applyFilters(ret.a, arg.criteria)
    /\ prev' = [arg |-> arg, ret |-> ret]
    /\ pc' = "again"
    /\ UNCHANGED searchVars

NextFilter == CallApplyFilters \/ CallApplyFiltersWithSources \/ CallApplyFiltersAgain

SpecFilter == InitFilter /\ [][NextFilter]_vars

\* C9: applyFilters(applyFilters(xs, c), c) = applyFilters(xs, c)
C9_Idempotent == pc = "again" => ret = prev.ret

\* a second pass over a list from which the first pass removed something
C9_Witness ==
    /\ pc = "again"
    /\ Len(prev.arg.notices) = 2
    /\ Len(prev.ret.a) = 1
    /\ ret = prev.ret

\* a is b with some elements removed
RECURSIVE IsSubsequence(_, _)
IsSubsequence(a, b) ==
    IF a = <<>> THEN TRUE
    ELSE IF b = <<>> THEN FALSE
    ELSE IF Head(a) = Head(b) THEN IsSubsequence(Tail(a), Tail(b))
    ELSE IsSubsequence(a, Tail(b))

\* C10: the result of applyFilters is a subsequence of its input, and with a
\* sources filter added to the criteria the result is never longer.
C10_SubsequenceAndSources ==
    /\ (pc \in {"return", "sources", "again"} /\ IsArray(ret))
           => IsSubsequence(ret.a, arg.notices)
    /\ (pc = "sources" /\ IsArray(ret) /\ IsArray(prev.ret))
           => Len(ret.a) <= Len(prev.ret.a)

\* a sources filter that removes one of two kept notices
C10_Witness ==
    /\ pc = "sources"
    /\ IsArray(ret) /\ IsArray(prev.ret)
    /\ Len(prev.ret.a) = 2
    /\ Len(ret.a) = 1

(* applyFilters, one criterion at a time on one notice *)

\* notices of either source: with and without a derivable stage, with the
\* type and status spellings of the alias table, with and without keyword
\* and authority text, with dates around a day's ends and around 1970, and
\* with none, one or several numeric values
CriterionPool ==
    { Obj([source |-> Str("CF"), noticeType |-> Str("Opportunity"),
           noticeStatus |-> Str("Open"), title |-> Str("Cloud hosting"),
           publishedDate |-> Str("2024-06-15T12:00:00Z"), valueLow |-> Num(1000),
           valueHigh |-> Null, awardedValue |-> Null]),
      Obj([source |-> Str("CF"), noticeType |-> Str("Future Opportunity"),
           noticeStatus |-> Str("Awarded"), title |-> Str("NHS cloud pipeline"),
           lastNotifiableUpdate |-> Str("2024-06-17"), valueLow |-> Str("3000"),
           awardedValue |-> Num(100)]),
      Obj([source |-> Str("Contracts Finder"), noticeType |-> Str("early-engagement"),
           noticeStatus |-> Str("Not Awarded"), title |-> Str("Road works"),
           publishedDate |-> Str("soon"), lastNotifiableUpdate |-> Str("later"),
           awardedDate |-> Str("2024-06-16"), deadlineDate |-> Str("2024-06-14"),
           valueLow |-> Str("abc"), valueHigh |-> Str("")]),
      Obj([source |-> Str("CF"), noticeType |-> Str("Contract"),
           publishedDate |-> Str("1969-12-31T23:00:00Z"), valueHigh |-> Num(0)]),
      Obj([source |-> Str("CF")]),
      Obj([source |-> Str("FTS"), noticeType |-> Str("Contract Notice"),
           noticeStatus |-> Str("active"), title |-> Str("Cloud services"),
           organisationName |-> Str("Leeds NHS Trust"),
           publishedDate |-> Str("2024-06-15T23:59:59.500Z"), valueHigh |-> Str("2500")]),
      Obj([source |-> Str("FTS"), title |-> Str("Cloud for the council"),
           organisationName |-> Str("Leeds City Council"),
           publishedDate |-> Str("2024-06-15T00:00:00Z")]),
      Obj([source |-> Str("td"), noticeType |-> Str("Opportunity"),
           noticeStatus |-> Str("Open"), title |-> Str("Road works"),
           organisationName |-> Str("National Health Service Wales"),
           publishedDate |-> Str("2024-06-16T00:00:00Z"), awardedValue |-> Num(2000)]),
      Obj([source |-> Str("Find a Tender"), description |-> Str("nhs estates"),
           deadlineDate |-> Str("1970-01-01")]),
      Obj([source |-> Str("FTS")]) }

\* criteria in which one group of fields is given and every other field has
\* its default; the lists hold blank and unrecognised entries too
CriterionChoices ==
    {NoCriteria}
    \cup {[NoCriteria EXCEPT !.procurementStages = ps] :
            ps \in {<<"Tender">>, <<"tender", "Award">>, <<"Contract Notice">>,
                    <<"pipeline", "">>, <<"banana">>, <<"">>}}
    \cup {[NoCriteria EXCEPT !.statuses = st] :
            st \in {<<"Open">>, <<"OPEN", "closed">>, <<"Awarded">>, <<"not awarded">>,
                    <<"">>}}
    \cup {[NoCriteria EXCEPT !.types = ty] :
            ty \in {<<"Contract">>, <<"Opportunity">>, <<"Pipeline", "">>,
                    <<"pre-procurement">>, <<"banana">>, <<"constructor">>, <<"">>}}
    \cup {[NoCriteria EXCEPT !.keywords = kw] :
            kw \in {<<"cloud">>, <<"Cloud", "">>, <<"road", "estates">>, <<"nhs">>, <<"">>}}
    \cup {[NoCriteria EXCEPT !.dateFrom = dt[1], !.dateTo = dt[2]] :
            dt \in {<<Str("2024-06-15"), Str("2024-06-15")>>,
                    <<Str("2024-06-16"), Undefined>>,
                    <<Undefined, Str("2024-06-14")>>,
                    <<Null, Str("2024-06-16")>>,
                    <<Str("1970-01-01"), Undefined>>,
                    <<Str("1970-01-01"), Str("2024-06-15")>>,
                    <<Str("1970-01-02"), Undefined>>,
                    <<Undefined, Str("1969-12-31")>>,
                    <<Str("someday"), Undefined>>}}
    \cup {[NoCriteria EXCEPT !.valueFrom = vl[1], !.valueTo = vl[2]] :
            vl \in {<<Num(500), Num(2000)>>, <<Num(2000), Num(3000)>>,
                    <<Undefined, Num(150)>>, <<Str("2500"), Null>>, <<Num(0), Num(0)>>,
                    <<Num(1), Undefined>>, <<Str(""), Num(50)>>, <<Num(5000), Num(10)>>,
                    <<Str("abc"), Undefined>>}}

InitCriterion ==
    /\ pc = "call"
    /\ arg \in [notices : {<<n>> : n \in CriterionPool}, criteria : CriterionChoices]
    /\ ret = Undefined
    /\ SearchIdle

SpecCriterion == InitCriterion /\ [][CallApplyFilters]_vars

\* the notice of a one-notice call, and whether the call kept it
TheNotice == arg.notices[1]

Kept == ret.a = arg.notices

Returned == pc = "return" /\ IsArray(ret)

\* the stage tokens the procurementStages entries ask for
RequestedStages(criteria) ==
    {normaliseProcurementStageToken(Str(p)) : p \in Range(criteria.procurementStages)}

HasDerivedStage(notice) ==
    IsString(deriveProcurementStage(notice))
        /\ deriveProcurementStage(notice).s \in StageLabelSet

\* a list of the criteria that holds an entry other than the empty string
Names(list) == \E i \in 1..Len(list) : list[i] # ""

\* C11: with a procurementStages list that names something, a notice whose
\* derived stage is one of the six labels is kept only if that stage is among
\* the requested ones, and a notice with no derivable stage is kept.
C11_StageCriterion ==
    (Returned /\ Names(arg.criteria.procurementStages)) =>
        IF HasDerivedStage(TheNotice)
        THEN Kept => Canon(deriveProcurementStage(TheNotice))
                         \in RequestedStages(arg.criteria)
        ELSE Kept

\* C12: the statuses criterion keeps a source-A notice exactly when the
\* normalised token of its noticeStatus equals the normalised token of some
\* requested status, and keeps every other notice.
C12_StatusCriterion ==
    (Returned /\ Names(arg.criteria.statuses)) =>
        IF IsSourceA(TheNotice)
        THEN Kept <=> \E s \in Range(arg.criteria.statuses) :
                          s # "" /\ Canon(Str(s)) = Canon(Get(TheNotice, "noticeStatus"))
        ELSE Kept

\* the token a type spelling stands for: opportunity = contract,
\* futureopportunity = pipeline, earlyengagement = preprocurement
AliasToken(v) ==
    LET token == Canon(v) IN
    CASE token \in {"opportunity", "contract"} -> "contract"
      [] token \in {"futureopportunity", "pipeline"} -> "pipeline"
      [] token \in {"earlyengagement", "preprocurement"} -> "preprocurement"
      [] OTHER -> token

\* C13: the types criterion keeps a source-A notice exactly when its
\* noticeType and some requested type stand for the same token under the
\* alias table, and keeps every notice that is not of source A.
C13_TypeCriterion ==
    (Returned /\ Names(arg.criteria.types)) =>
        IF IsSourceA(TheNotice)
        THEN Kept <=> \E t \in Range(arg.criteria.types) :
                          t # "" /\ AliasToken(Str(t)) = AliasToken(Get(TheNotice, "noticeType"))
        ELSE Kept

\* a source-A Opportunity is kept when Contract is requested
C13_Witness ==
    /\ Returned
    /\ arg.criteria.types = <<"Contract">>
    /\ IsSourceA(TheNotice)
    /\ Get(TheNotice, "noticeType") = Str("Opportunity")
    /\ Kept

IsSourceB(n) == toUpperCase(JsString(Get(n, "source"))) \in {"FTS", "TD", "FIND A TENDER"}

\* some field of the text blob holds the keyword, letter case aside
InBlobText(notice, keyword) ==
    \E f \in {"title", "description", "cpvCodes", "organisationName",
              "organisationAddress", "regionText", "region", "noticeIdentifier"} :
        /\ IsString(Get(notice, f))
        /\ includes(toLowerCase(Get(notice, f).s), toLowerCase(keyword))

\* the authority check on the fields it reads
PassesAuthorityCheck(notice) ==
    \E f \in {"organisationName", "organisationAddress", "title",
              "description", "regionText", "region"} :
        containsAuthorityKeyword(Get(notice, f))

\* C14: with a keyword list that names a keyword, a source-B notice is kept
\* only if some keyword occurs in its lower-cased blob and the notice passes
\* the authority check as well; a source-A notice is kept.
C14_KeywordCriterion ==
    (Returned /\ Names(arg.criteria.keywords)) =>
        /\ (IsSourceB(TheNotice) /\ Kept) =>
               /\ \E k \in Range(arg.criteria.keywords) :
                      k # "" /\ InBlobText(TheNotice, k)
               /\ PassesAuthorityCheck(TheNotice)
        /\ IsSourceA(TheNotice) => Kept

\* a source-B notice that holds the keyword and names no authority is dropped
C14_Witness ==
    /\ Returned
    /\ arg.criteria.keywords = <<"cloud">>
    /\ IsSourceB(TheNotice)
    /\ InBlobText(TheNotice, "cloud")
    /\ ~PassesAuthorityCheck(TheNotice)
    /\ ~Kept

\* a bound of the date range that is given, and one that is a calendar day
Given(v) == v \notin {Undefined, Null}

ValidDay(v) == IsString(v) /\ MatchesPicture(v.s, "dddd-dd-dd") /\ DateParse(v.s) # NaN

\* the instants of the dates a notice carries, in the order publishedDate,
\* lastNotifiableUpdate, awardedDate, deadlineDate
ResolvableDates(notice) ==
    SelectSeq([i \in 1..4 |->
                  LET v == Get(notice, <<"publishedDate", "lastNotifiableUpdate",
                                         "awardedDate", "deadlineDate">>[i])
                  IN  IF IsString(v) THEN DateParse(v.s) ELSE NaN],
              LAMBDA t : t # NaN)

HasDate(notice) == ResolvableDates(notice) # <<>>

CandidateDate(notice) == ResolvableDates(notice)[1]

\* the number of the calendar day a bound names
DayOf(v) == DateParse(v.s).d

\* the last instant of a day the claim's end bound admits: 23:59:59 UTC
LastSecond(day) == Millis(day, 86399000)

\* a date-range call with calendar-day bounds, on a notice that has a date
DateRangeCall ==
    /\ Returned
    /\ Given(arg.criteria.dateFrom) \/ Given(arg.criteria.dateTo)
    /\ Given(arg.criteria.dateFrom) => ValidDay(arg.criteria.dateFrom)
    /\ Given(arg.criteria.dateTo) => ValidDay(arg.criteria.dateTo)

\* C15: a dated notice is kept exactly when its candidate date is at or after
\* 00:00:00 UTC of dateFrom and at or before 23:59:59 UTC of dateTo; and so a
\* notice dated at any instant of day D is kept under dateFrom = dateTo = D
\* and dropped under dateFrom = D + 1. (Bounds that start at timestamp 0 are
\* the subject of C16 and are left out here.)
C15_DateRange ==
    (DateRangeCall /\ HasDate(TheNotice) /\ arg.criteria.dateFrom # Str("1970-01-01")) =>
        LET from == arg.criteria.dateFrom
            to == arg.criteria.dateTo
            candidate == CandidateDate(TheNotice)
        IN  /\ Kept <=> /\ Given(from) => ~NumLess(candidate, Millis(DayOf(from), 0))
                        /\ Given(to) => ~NumLess(LastSecond(DayOf(to)), candidate)
            /\ (Given(from) /\ from = to /\ candidate.d = DayOf(from)) => Kept
            /\ (Given(from) /\ DayOf(from) = candidate.d + 1) => ~Kept

\* C16: under any calendar-day bound, the day 1970-01-01 included, a notice
\* with no resolvable date is dropped, and a notice that has a date is kept
\* only if that date is not before the start of dateFrom and not after the
\* day of dateTo.
C16_BoundEnforced ==
    DateRangeCall =>
        IF ~HasDate(TheNotice) THEN ~Kept
        ELSE Kept =>
                 /\ Given(arg.criteria.dateFrom) =>
                        CandidateDate(TheNotice).d >= DayOf(arg.criteria.dateFrom)
                 /\ Given(arg.criteria.dateTo) =>
                        CandidateDate(TheNotice).d <= DayOf(arg.criteria.dateTo)

\* a number as the claims read it: a number, or a string of digits
IsNumeric(v) == v.js = "number" \/ (IsString(v) /\ IsDigits(v.s))

NumberOf(v) == IF v.js = "number" THEN v.n ELSE ParseDigits(v.s)

\* a bound of the value range that is not given
Missing(v) == v \in {Undefined, Null, Str("")}

\* the numeric values a notice carries
NumericValues(notice) ==
    {NumberOf(Get(notice, f)) :
        f \in {g \in {"valueLow", "valueHigh", "awardedValue"} : IsNumeric(Get(notice, g))}}

\* a value-range call: a bound is given, and each bound is a number or missing
ValueRangeCall ==
    /\ Returned
    /\ ~Missing(arg.criteria.valueFrom) \/ ~Missing(arg.criteria.valueTo)
    /\ Missing(arg.criteria.valueFrom) \/ IsNumeric(arg.criteria.valueFrom)
    /\ Missing(arg.criteria.valueTo) \/ IsNumeric(arg.criteria.valueTo)

InValueRange(x, criteria) ==
    /\ Missing(criteria.valueFrom) \/ x >= NumberOf(criteria.valueFrom)
    /\ Missing(criteria.valueTo) \/ x <= NumberOf(criteria.valueTo)

\* C17: under a value range, a notice with a numeric value in valueLow,
\* valueHigh or awardedValue is kept exactly when at least one of those values
\* lies in the closed range, a missing bound being unbounded; a notice with no
\* numeric value is kept.
C17_ValueRange ==
    ValueRangeCall =>
        IF NumericValues(TheNotice) = {} THEN Kept
        ELSE Kept <=> \E x \in NumericValues(TheNotice) : InValueRange(x, arg.criteria)

\* a notice with one value inside the range and one outside is kept
C17_Witness ==
    /\ ValueRangeCall
    /\ \E x \in NumericValues(TheNotice) : InValueRange(x, arg.criteria)
    /\ \E x \in NumericValues(TheNotice) : ~InValueRange(x, arg.criteria)
    /\ Kept

(* Release selection of the projector *)

MaxReleases == 3

\* releases that differ in id, date and title: two with the same date, one
\* without a date, one whose id is a base record's id
DatedRelease(id, date, title) ==
    Obj([id |-> Str(id), date |-> date, tender |-> Obj([title |-> Str(title)])])

ReleasePool ==
    { DatedRelease("R1", Str("2024-01-01"), "January"),
      DatedRelease("R2", Str("2024-03-01"), "March"),
      DatedRelease("R3", Str("2024-03-01T00:00:00Z"), "March again"),
      DatedRelease("R4", Undefined, "Undated"),
      DatedRelease("N1", Str("2023-12-01T09:30:00Z"), "December") }

\* what fetchReleasePackage can hand to the projector: null, a body without
\* releases, and packages of up to MaxReleases releases
PackagePool ==
    {Null, EmptyObject, Obj([releases |-> Str("none")])}
    \cup {Obj([releases |-> Arr(q)]) : q \in SeqsUpTo(ReleasePool, MaxReleases)}

\* base records as BaseRecord builds them; a record without id never reaches
\* the projector (line 365)
BasePool ==
    { Obj([id |-> Str(id), source |-> Str("FTS"),
           link |-> Str("https://www.find-tender.service.gov.uk/Notice/" \o id),
           publishedDate |-> Str("2024-06-01T09:00:00Z"), noticeStatus |-> Str("PUBLISHED"),
           noticeType |-> Str("F02"), noticeIdentifier |-> Null]) : id \in {"N1", "N9"} }

InitRelease ==
    /\ pc = "call"
    /\ arg \in [base : BasePool, pkg : PackagePool]
    /\ ret = Undefined
    /\ prev = Undefined
    /\ SearchIdle

\* selectRelevantRelease(pkg, base.id), line 466
CallSelectRelevantRelease ==
    /\ pc = "call"
    /\ ret' = selectRelevantRelease(arg.pkg, Get(arg.base, "id"))
    /\ pc' = "selected"
    /\ UNCHANGED <<arg, prev, searchVars>>

\* mapReleasePackageToNotice(base, pkg)
CallMapReleasePackageToNotice ==
    /\ pc = "call"
    /\ ret' = mapReleasePackageToNotice(arg.base, arg.pkg)
    /\ pc' = "return"
    /\ UNCHANGED <<arg, prev, searchVars>>

NextRelease == CallSelectRelevantRelease \/ CallMapReleasePackageToNotice

SpecRelease == InitRelease /\ [][NextRelease]_vars

\* the releases of the package of the call, none when it has no list of them
ReleasesOf(pkg) ==
    IF IsObject(pkg) /\ IsArray(Get(pkg, "releases")) THEN Get(pkg, "releases").a ELSE <<>>

HasDateOf(release) ==
    IsString(Get(release, "date")) /\ DateParse(Get(release, "date").s) # NaN

\* no dated release of the list is more recent than this one
IsMostRecent(release, releases) ==
    \A i \in 1..Len(releases) :
        HasDateOf(releases[i]) =>
            /\ HasDateOf(release)
            /\ ~NumLess(DateParse(Get(release, "date").s),
                        DateParse(Get(releases[i], "date").s))

IdMatches(release, base) == Get(release, "id") = Get(base, "id")

\* what the claim lets the call select: nothing from no releases, a release
\* with the base record's id if there is one, else a most recent release
MaySelect(release, base, releases) ==
    IF releases = <<>> THEN release = Null
    ELSE /\ release \in Range(releases)
         /\ IF \E i \in 1..Len(releases) : IdMatches(releases[i], base)
            THEN IdMatches(release, base)
            ELSE IsMostRecent(release, releases)

\* C18: from a null package or one without releases no release is selected
\* and the projector returns the base record with every field unchanged and
\* does not throw; otherwise the release with the base record's id is
\* selected if there is one, else the release with the most recent date, and
\* the projected notice carries the title of such a release.
C18_ReleaseSelection ==
    /\ pc = "selected" => MaySelect(ret, arg.base, ReleasesOf(arg.pkg))
    /\ pc = "return" =>
           IF ReleasesOf(arg.pkg) = <<>> THEN ret = arg.base
           ELSE \E i \in 1..Len(ReleasesOf(arg.pkg)) :
                    /\ MaySelect(ReleasesOf(arg.pkg)[i], arg.base, ReleasesOf(arg.pkg))
                    /\ Get(ret, "title") = Get(Get(ReleasesOf(arg.pkg)[i], "tender"), "title")

\* of releases dated 2024-01-01 and 2024-03-01, neither with the base
\* record's id, the one of 2024-03-01 is selected
C18_Witness ==
    /\ pc = "selected"
    /\ Len(ReleasesOf(arg.pkg)) = 2
    /\ Get(ReleasesOf(arg.pkg)[1], "date") = Str("2024-01-01")
    /\ Get(ReleasesOf(arg.pkg)[2], "date") = Str("2024-03-01")
    /\ ~IdMatches(ReleasesOf(arg.pkg)[1], arg.base)
    /\ ret = ReleasesOf(arg.pkg)[2]

(* decodeHtmlEntities on texts of several character references *)

MaxEntities == 3

\* pieces of input text: character references of the three classes, valid
\* and not, pieces that continue a reference once an "&" stands before them,
\* and plain text
EntityFragments ==
    {"&#38;", "&#x26;", "amp;", "lt;", "#65;", "&lt;", "&#x41;", "&nope;",
     "&#x110000;", "&#1114112;", "Tea "}

\* the text the pieces make, in order
RECURSIVE JoinAll(_)
JoinAll(parts) == IF parts = <<>> THEN "" ELSE Head(parts) \o JoinAll(Tail(parts))

InitDecode ==
    /\ pc = "call"
    /\ arg \in {[parts |-> q] : q \in SeqsUpTo(EntityFragments, MaxEntities) \ {<<>>}}
    /\ ret = Undefined
    /\ prev = Undefined
    /\ SearchIdle

\* decodeHtmlEntities(value)
CallDecodeHtmlEntities ==
    /\ pc = "call"
    /\ ret' = decodeHtmlEntities(Str(JoinAll(arg.parts)))
    /\ pc' = "return"
    /\ UNCHANGED <<arg, prev, searchVars>>

SpecDecode == InitDecode /\ [][CallDecodeHtmlEntities]_vars

\* a numeric reference to a value that is no code point
InvalidReferences == {"&#x110000;", "&#1114112;"}

\* a piece of the input decoded once, on its own: an invalid reference stays
\* as it is written
DecodedOnce(part) ==
    IF part \in InvalidReferences THEN part ELSE decodeHtmlEntities(Str(part)).s

\* C19: every character reference of the input is decoded at most once: the
\* result is the input's pieces, each decoded on its own, in order, so that
\* the "&" a numeric reference decodes to does not start a new reference
\* with the text after it.
C19_DecodedOnce ==
    (pc = "return" /\ Range(arg.parts) \cap InvalidReferences = {}) =>
        ret = Str(JoinAll([i \in 1..Len(arg.parts) |-> DecodedOnce(arg.parts[i])]))

\* C20: decodeHtmlEntities returns a string for every input, and a numeric
\* reference to a value above 0x10FFFF is left in it as written.
C20_NeverThrows ==
    pc = "return" =>
        /\ IsString(ret)
        /\ \A i \in 1..Len(arg.parts) :
               arg.parts[i] \in InvalidReferences => includes(ret.s, arg.parts[i])

(* decodeHtmlEntities on values without a recognised reference *)

MaxPlainFragments == 3

\* text without a character reference the decoder knows: names outside the
\* table in either letter case, a name Object.prototype has, an "&" that
\* starts no reference, references cut short
PlainFragments ==
    {"&nope;", "&Nope;", "&constructor;", "Tea ", "a & b", "&;", "&#;", "&amp", "50% "}

DecodeValues ==
    {Null, Undefined} \cup {Str(s) : s \in Concats(PlainFragments, MaxPlainFragments)}

InitDecodeValue ==
    /\ pc = "call"
    /\ arg \in DecodeValues
    /\ ret = Undefined
    /\ prev = Undefined
    /\ SearchIdle

\* decodeHtmlEntities(value) for a value that may be null or undefined
CallDecodeHtmlEntitiesOnValue ==
    /\ pc = "call"
    /\ ret' = decodeHtmlEntities(arg)
    /\ pc' = "return"
    /\ UNCHANGED <<arg, prev, searchVars>>

SpecDecodeValue == InitDecodeValue /\ [][CallDecodeHtmlEntitiesOnValue]_vars

\* the names of the references the decoder recognises
RecognisedNames == {"amp", "lt", "gt", "quot", "apos", "nbsp"}

\* the text holds a numeric reference or a reference with a recognised name
HasRecognisedReference(s) ==
    \E i \in 1..Len(s) :
        \/ NumericEntityEnd(s, i, TRUE) # 0
        \/ NumericEntityEnd(s, i, FALSE) # 0
        \/ /\ NamedEntityEnd(s, i) # 0
           /\ toLowerCase(SubSeq(s, i + 1, NamedEntityEnd(s, i) - 1)) \in RecognisedNames

\* C21: null, undefined, the empty string and every string without a
\* recognised reference are returned unchanged; in particular a named
\* reference outside amp, lt, gt, quot, apos, nbsp stays as written, letter
\* case included.
C21_Unchanged ==
    (pc = "return" /\ (IsString(arg) => ~HasRecognisedReference(arg.s))) => ret = arg

(* The two source mappers on hits with optional fields missing *)

\* an upstream value for each optional field of a raw hit
SampleHit ==
    [title |-> Str("Ward refit &amp; repairs"), description |-> Str("Phase 2"),
     organisationName |-> Str("Leeds NHS Trust"), noticeType |-> Str("Contract"),
     noticeStatus |-> Str("Open"), valueLow |-> Num(1000), awardedValue |-> Num(900),
     publishedDate |-> Str("2024-05-01T00:00:00Z"), deadlineDate |-> Str("2024-06-01T00:00:00Z"),
     region |-> Str("Yorkshire"), lastNotifableUpdate |-> Str("2024-05-02T00:00:00Z")]

\* the hit that carries the id and the fields of SampleHit named in present
HitWith(id, present) ==
    Obj([f \in present \cup {"id"} |-> IF f = "id" THEN Str(id) ELSE SampleHit[f]])

\* raw Contracts Finder hits: every subset of the optional fields present
MapperContractsFinderHits ==
    {HitWith("cf-1", present) :
        present \in SUBSET {"title", "description", "noticeType", "noticeStatus", "valueLow",
                            "awardedValue", "publishedDate", "deadlineDate", "region",
                            "lastNotifableUpdate"}}

\* Find a Tender hits as the projector writes them: every optional field is
\* there, null when the release has no value for it
MapperFindATenderHits ==
    {Obj([f \in {"id", "title", "description", "organisationName", "noticeType",
                 "noticeStatus", "valueLow", "publishedDate"}
             |-> IF f = "id" THEN Str("N1")
                 ELSE IF f \in present THEN SampleHit[f] ELSE Null]) :
        present \in SUBSET {"title", "description", "organisationName", "noticeType",
                            "noticeStatus", "valueLow", "publishedDate"}}

InitMapper ==
    /\ pc = "call"
    /\ arg \in {[source |-> "CF", item |-> hit] : hit \in MapperContractsFinderHits}
               \cup {[source |-> "FTS", item |-> hit] : hit \in MapperFindATenderHits}
    /\ ret = Undefined
    /\ prev = Undefined
    /\ SearchIdle

\* the callback of cf.hits.map
CallMapContractsFinderHit ==
    /\ pc = "call"
    /\ arg.source = "CF"
    /\ ret' = MapContractsFinderHit(arg.item)
    /\ pc' = "return"
    /\ UNCHANGED <<arg, prev, searchVars>>

\* the callback of fts.hits.map
CallMapFindATenderHit ==
    /\ pc = "call"
    /\ arg.source = "FTS"
    /\ ret' = MapFindATenderHit(arg.item)
    /\ pc' = "return"
    /\ UNCHANGED <<arg, prev, searchVars>>

NextMapper == CallMapContractsFinderHit \/ CallMapFindATenderHit

SpecMapper == InitMapper /\ [][NextMapper]_vars

\* the upstream value of a Notice field is absent: the hit has neither the
\* field nor, for lastNotifiableUpdate, its upstream misspelling
AbsentUpstream(item, field) ==
    /\ IsNullish(Get(item, field))
    /\ field = "lastNotifiableUpdate" => IsNullish(Get(item, "lastNotifableUpdate"))

\* the fields a mapper sets whatever the hit holds: the source tag, the link
\* built from the id, the derived stage, and the documented default title
\* of a Find a Tender notice
FixedFields(source) ==
    {"id", "source", "link", "procurementStage"}
        \cup (IF source = "FTS" THEN {"title"} ELSE {})

\* C22: a mapper does not throw on a hit with optional fields missing, and
\* every field of the returned Notice whose upstream value is absent is null.
C22_AbsentIsNull ==
    pc = "return" =>
        /\ IsObject(ret)
        /\ \A field \in DOMAIN ret.o \ FixedFields(arg.source) :
               AbsentUpstream(arg.item, field) => ret.o[field] = Null

(* searchFindATender from its first line: the FTS_API_KEY test and the     *)
(* search over the OCDS release packages that runs without a key           *)

OCDS_DEFAULT_STAGE == "tender"

normaliseOcdsStage(value) ==
    IF ~Truthy(value) THEN OCDS_DEFAULT_STAGE
    ELSE IF toLowerCase(JsString(value)) \in {"tender", "award", "planning"}
    THEN toLowerCase(JsString(value))
    ELSE OCDS_DEFAULT_STAGE

partyLooksNhs(party) ==
    IF ~Truthy(party) \/ ~IsObjectType(party) THEN FALSE
    ELSE \/ containsAuthorityKeyword(Get(party, "name"))
         \/ containsAuthorityKeyword(Get(Get(party, "identifier"), "legalName"))
         \/ \E f \in {"streetAddress", "locality", "region", "postalCode", "countryName"} :
                containsAuthorityKeyword(Get(Or(Get(party, "address"), EmptyObject), f))

\* releaseLooksNhs: the parties found by the buyer's or the procuring
\* entity's id, and the parties with a buyer role, are among the parties
\* the last test goes through
releaseLooksNhs(release) ==
    IF ~Truthy(release) \/ ~IsObjectType(release) THEN FALSE
    ELSE \/ containsAuthorityKeyword(Get(Get(release, "buyer"), "name"))
         \/ containsAuthorityKeyword(
                Get(Get(Get(release, "tender"), "procuringEntity"), "name"))
         \/ /\ IsArray(Get(release, "parties"))
            /\ \E i \in 1..Len(Get(release, "parties").a) :
                   partyLooksNhs(Get(release, "parties").a[i])

\* lines 424-446: the hit of one release, null for a release without id;
\* the ids considered need no escaping in the link
OcdsHit(release, normalisedStage) ==
    LET id == Or(Get(release, "id"), Get(release, "ocid"))
        tag == Get(release, "tag")
        base == Obj([
            id |-> id,
            source |-> Str("FTS"),
            link |-> Str("https://www.find-tender.service.gov.uk/Notice/" \o JsString(id)),
            publishedDate |-> Or(Get(release, "date"), Null),
            noticeStatus |-> Str("PUBLISHED"),
            noticeType |-> IF IsArray(tag) /\ tag.a # <<>>
                           THEN Str(Join([i \in 1..Len(tag.a) |-> JsString(tag.a[i])], ", "))
                           ELSE Str(normalisedStage),
            noticeIdentifier |-> Or(Or(Get(release, "id"), Get(release, "ocid")), Null),
            parentId |-> Null,
            lastNotifiableUpdate |-> Or(Get(release, "date"), Null),
            organisationAddress |-> Null])
    IN  IF ~Truthy(id) THEN Null
        ELSE Catch(mapReleasePackageToNotice(base, Obj([releases |-> Arr(<<release>>)])),
                   normalizeNotice(base))

\* lines 420-452: what searchFindATenderViaOcds returns for the package of
\* the response; the packages considered carry no next link
OcdsResult(pkg, stage, onlyNhs) ==
    LET releases == IF IsArray(Get(pkg, "releases")) THEN Get(pkg, "releases").a ELSE <<>>
        candidateReleases == IF onlyNhs THEN SelectSeq(releases, releaseLooksNhs)
                             ELSE releases
        ocdsHits == SelectSeq([i \in 1..Len(candidateReleases) |->
                                  OcdsHit(candidateReleases[i], normaliseOcdsStage(stage))],
                              Truthy)
        filteredHits == IF onlyNhs THEN SelectSeq(ocdsHits, matchesPreferredAuthority)
                        ELSE ocdsHits
    IN  Obj([hits |-> Arr(filteredHits),
             hitCount |-> Num(Len(filteredHits)),
             nextCursor |-> Null])

\* the release packages the OCDS endpoint answers with
OcdsPackages ==
    {EmptyObject}
    \cup {Obj([releases |-> Arr(q)]) :
            q \in SeqsUpTo({Release("ocds-1", "Leeds Teaching Hospitals NHS Trust", Undefined),
                            Release("ocds-2", "Leeds City Council", Undefined),
                            Release("ocds-3", "NHS Supply Chain", Arr(<<Null>>)),
                            Obj([date |-> Str("2024-06-02T10:00:00Z")])}, 2)}

\* process.env.FTS_API_KEY: not set, set to nothing, or set
ApiKeys == {Undefined, Str(""), Str("secret")}

InitKey ==
    /\ PageIdle
    /\ pc = "search"
    /\ nhsOnly \in BOOLEAN
    /\ submissions \in ListingContents
    /\ baseRecords = <<>>
    /\ index = 0
    /\ chunk = <<>>
    /\ fetches = <<>>
    /\ enriched = <<>>
    /\ outcomes = <<>>
    /\ hits = <<>>
    /\ started = 0
    /\ result = Undefined
    /\ arg \in {[subscriptionKey |-> key] : key \in ApiKeys}
    /\ ret = Undefined
    /\ prev = Undefined

\* lines 318-328 and 408-417: without a key the search goes to
\* searchFindATenderViaOcds, which requests the release packages
SearchViaOcds ==
    /\ pc = "search"
    /\ ~Truthy(arg.subscriptionKey)
    /\ pc' = "ocds"
    /\ UNCHANGED <<searchVars, callVars>>

\* lines 330-344: with a key the listing is requested
RequestListing ==
    /\ pc = "search"
    /\ Truthy(arg.subscriptionKey)
    /\ pc' = "listing"
    /\ UNCHANGED <<searchVars, callVars>>

\* line 418: the release-package response is not ok
OcdsFails ==
    /\ pc = "ocds"
    /\ pc' = "failed"
    /\ result' = Thrown("Find a Tender OCDS 500")
    /\ UNCHANGED <<nhsOnly, submissions, baseRecords, index, chunk, fetches, enriched,
                   outcomes, hits, started, callVars>>

\* lines 420-452: the release packages arrive and are projected
OcdsArrives ==
    /\ pc = "ocds"
    /\ \E pkg \in OcdsPackages : result' = OcdsResult(pkg, Undefined, nhsOnly)
    /\ pc' = "done"
    /\ UNCHANGED <<nhsOnly, submissions, baseRecords, index, chunk, fetches, enriched,
                   outcomes, hits, started, callVars>>

NextKey == SearchViaOcds \/ RequestListing \/ OcdsFails \/ OcdsArrives \/ Next

SpecKey == InitKey /\ [][NextKey]_vars

\* a request to a Find a Tender endpoint is awaited: the release packages,
\* the listing, or the detail fetches of a chunk
RequestInFlight == pc \in {"ocds", "listing", "await"}

\* C23: with no FTS_API_KEY configured the search makes no request to a Find
\* a Tender endpoint and its result holds no notices.
C23_SkipsWithoutKey ==
    ~Truthy(arg.subscriptionKey) =>
        /\ ~RequestInFlight
        /\ pc = "done" => result.o.hits.a = <<>>

-----------------------------------------------------------------------------
(* deriveProcurementStage past the explicit stage and the shortcuts *)

\* the stage-like fields collectStageCandidates reads
StageLikeFields ==
    {"procurementStage", "noticeStage", "stage", "stageName", "noticeType",
     "noticeStatus", "type", "status"}

\* the notice's type under the alias table
TypeTokenOf(n) ==
    LET ty == Canon(Get(n, "noticeType")) IN
    IF ty \in DOMAIN TYPE_ALIAS THEN TYPE_ALIAS[ty] ELSE ty

\* the set of candidate tokens of a notice: its type, its stage-like fields and
\* tags, its status, and the award, contract-timing and end-date signals
CandidateTokenSet(n) ==
    ({TypeTokenOf(n)}
        \cup {Canon(Get(n, f)) : f \in StageLikeFields}
        \cup (IF IsArray(Get(n, "tags")) THEN {Canon(t) : t \in Range(Get(n, "tags").a)}
              ELSE {})
        \cup (IF Truthy(Get(n, "awardedDate")) \/ Truthy(Get(n, "awardedValue"))
              THEN {"award"} ELSE {})
        \cup (IF hasContractTiming(n) THEN {"contract"} ELSE {})
        \cup (IF \E f \in {"end", "contractEnd", "contractEndDate", "terminationDate"} :
                     Truthy(Get(n, f))
              THEN {"termination"} ELSE {}))
    \ {""}

\* the positions, in the fixed stage order, of the stages one of whose
\* patterns some token of the set contains
MatchingStages(tokens) ==
    {m \in 1..Len(STAGE_MATCHERS) :
        \E t \in tokens : \E p \in Range(STAGE_MATCHERS[m].patterns) : includes(t, p)}

EarliestStageLabel(tokens) ==
    IF MatchingStages(tokens) = {} THEN ""
    ELSE STAGE_LABELS[STAGE_MATCHERS[Least(MatchingStages(tokens))].token]

NoShortcut(n) == ~(IsSourceA(n) /\ ShortcutLabel(n) # "")

\* C24: without an explicit stage and without a source-A shortcut the derived
\* stage is the earliest stage, in the order pipeline, planning, tender, award,
\* contract, termination, one of whose patterns some candidate token contains;
\* it is a function of the set of candidate tokens and is "" when no token
\* matches.
C24_EarliestMatch ==
    (pc = "return" /\ NoExplicitStage(arg) /\ NoShortcut(arg))
        => ret = Str(EarliestStageLabel(CandidateTokenSet(arg)))

\* apart from the notices on which the derivation throws, the rule holds
C24_EarliestMatchUnlessThrown ==
    (pc = "return" /\ NoExplicitStage(arg) /\ NoShortcut(arg) /\ ~IsThrown(ret))
        => ret = Str(EarliestStageLabel(CandidateTokenSet(arg)))

\* a type outside every pattern, with an end date: Termination
C24_Reached ==
    /\ pc = "return"
    /\ NoExplicitStage(arg) /\ NoShortcut(arg)
    /\ Get(arg, "noticeType") = Str("Other")
    /\ ret = Str("Termination")
-----------------------------------------------------------------------------
(* deriveProcurementStage on a bare source-A contract-type notice *)

\* a notice with no explicit stage, status, tags, award, contract start or end
BareOfSignals(n) ==
    /\ ~Truthy(Get(n, "procurementStage"))
    /\ ~Truthy(Get(n, "noticeStatus"))
    /\ ~Truthy(Get(n, "tags"))
    /\ ~Truthy(Get(n, "awardedDate")) /\ ~Truthy(Get(n, "awardedValue"))
    /\ ~hasContractTiming(n)
    /\ ~Truthy(Get(n, "end"))

\* C25: a source-A notice of type Contract or Opportunity with no explicit
\* stage, no status, no other stage-like field and no award, contract-timing
\* or end-date signal is classified Tender.
C25_BareContractTypeIsTender ==
    (/\ pc = "return"
     /\ IsSourceA(arg)
     /\ Canon(Get(arg, "noticeType")) \in {"contract", "opportunity"}
     /\ BareOfSignals(arg))
        => ret = Str("Tender")

\* what the code returns on those notices
C25_BareContractTypeIsContract ==
    (/\ pc = "return"
     /\ IsSourceA(arg)
     /\ Canon(Get(arg, "noticeType")) \in {"contract", "opportunity"}
     /\ BareOfSignals(arg))
        => ret = Str("Contract")
-----------------------------------------------------------------------------
(* The financial value source of the projector *)

MaxBreakdown == 2

ValueObject(amount) == Obj([amount |-> Num(amount), currency |-> Str("GBP")])

\* tender.value: absent, an amount, or an amount with a maximum
TenderValues ==
    {Undefined, ValueObject(100),
     Obj([amount |-> Num(100), maximumAmount |-> Num(150), currency |-> Str("GBP")])}

\* budget breakdown entries with and without an amount
BreakdownEntries ==
    {Obj([id |-> Str("b0"), description |-> Str("unfunded")]),
     Obj([id |-> Str("b1"), amount |-> ValueObject(200)]),
     Obj([id |-> Str("b2"), amount |-> ValueObject(250)])}

\* planning.budget.budgetBreakdown: absent, or up to MaxBreakdown entries
Breakdowns == {Undefined} \cup {Arr(q) : q \in SeqsUpTo(BreakdownEntries, MaxBreakdown)}

\* planning.budget.amount: absent or an amount
FlatAmounts == {Undefined, ValueObject(300)}

ValuedRelease(value, breakdown, flat) ==
    Obj([id |-> Str("R1"), date |-> Str("2024-03-01"),
         tender |-> Obj([title |-> Str("March"), value |-> value]),
         planning |-> Obj([budget |-> Obj([budgetBreakdown |-> breakdown, amount |-> flat])])])

ValuedPackages ==
    {Obj([releases |-> Arr(<<ValuedRelease(v, b, f)>>)]) :
        v \in TenderValues, b \in Breakdowns, f \in FlatAmounts}

InitValue ==
    /\ pc = "call"
    /\ arg \in [base : BasePool, pkg : ValuedPackages]
    /\ ret = Undefined
    /\ prev = Undefined
    /\ SearchIdle

\* mapReleasePackageToNotice(base, pkg) on a package with value sources
CallMapValuedPackage ==
    /\ pc = "call"
    /\ ret' = mapReleasePackageToNotice(arg.base, arg.pkg)
    /\ pc' = "return"
    /\ UNCHANGED <<arg, prev, searchVars>>

SpecValue == InitValue /\ [][CallMapValuedPackage]_vars

\* the three value sources of the release of the call
TenderValueOf(pkg) == Get(Get(pkg.o.releases.a[1], "tender"), "value")

BudgetOf(pkg) == Get(Get(pkg.o.releases.a[1], "planning"), "budget")

\* the amounts of the breakdown entries that have one, in order
BreakdownAmounts(pkg) ==
    IF IsArray(Get(BudgetOf(pkg), "budgetBreakdown"))
    THEN SelectSeq([i \in DOMAIN Get(BudgetOf(pkg), "budgetBreakdown").a |->
                        Get(Get(BudgetOf(pkg), "budgetBreakdown").a[i], "amount")],
                   LAMBDA amount : amount # Undefined)
    ELSE <<>>

\* the source the claim names: tender.value, else the first breakdown amount,
\* else the flat amount, else none
ClaimedValueSource(pkg) ==
    IF TenderValueOf(pkg) # Undefined THEN TenderValueOf(pkg)
    ELSE IF BreakdownAmounts(pkg) # <<>> THEN BreakdownAmounts(pkg)[1]
    ELSE IF Get(BudgetOf(pkg), "amount") # Undefined THEN Get(BudgetOf(pkg), "amount")
    ELSE Undefined

NullIfMissing(v) == IF v = Undefined THEN Null ELSE v

\* C26: the value range of the projected notice is read from tender.value when
\* present, otherwise from the first budget-breakdown entry that has an
\* amount, otherwise from the flat planning budget amount (also when the
\* breakdown is non-empty but no entry has an amount); valueLow and valueHigh
\* are null only when none of the three exists.
C26_ValueSource ==
    pc = "return" =>
        /\ Get(ret, "valueLow") = NullIfMissing(Get(ClaimedValueSource(arg.pkg), "amount"))
        /\ Get(ret, "valueHigh")
               = NullIfMissing(Get(ClaimedValueSource(arg.pkg), "maximumAmount"))
        /\ (Get(ret, "valueLow") = Null /\ Get(ret, "valueHigh") = Null)
               => ClaimedValueSource(arg.pkg) = Undefined

\* a non-empty breakdown shadows the flat amount only when an entry has an amount
BreakdownShadowsFlat(pkg) ==
    /\ TenderValueOf(pkg) = Undefined
    /\ IsArray(Get(BudgetOf(pkg), "budgetBreakdown"))
    /\ Get(BudgetOf(pkg), "budgetBreakdown").a # <<>>
    /\ BreakdownAmounts(pkg) = <<>>
    /\ Get(BudgetOf(pkg), "amount") # Undefined

\* what holds of the code: the claimed source outside that case
C26_ValueSourceUnlessShadowed ==
    (pc = "return" /\ ~BreakdownShadowsFlat(arg.pkg)) =>
        /\ Get(ret, "valueLow") = NullIfMissing(Get(ClaimedValueSource(arg.pkg), "amount"))
        /\ Get(ret, "valueHigh")
               = NullIfMissing(Get(ClaimedValueSource(arg.pkg), "maximumAmount"))
-----------------------------------------------------------------------------
(* applyFilters with date and value bounds that cannot be parsed *)

MaxBoundNotices == 2

\* dateFrom / dateTo as the caller may give them: absent, a day, free text
BoundDates == {Undefined, Str("2024-06-15"), Str("someday")}

\* valueFrom / valueTo: absent, a number, free text, NaN
BoundValues == {Undefined, Num(1000), Str("abc"), NaN}

BoundCriteria ==
    {[NoCriteria EXCEPT !.dateFrom = df, !.dateTo = dt, !.valueFrom = vf, !.valueTo = vt] :
        df \in BoundDates, dt \in BoundDates, vf \in BoundValues, vt \in BoundValues}

\* notices with and without a date, with and without a value
BoundPool ==
    { Obj([source |-> Str("CF"), noticeType |-> Str("Opportunity"),
           publishedDate |-> Str("2024-06-15T12:00:00Z"), valueLow |-> Num(1000)]),
      Obj([source |-> Str("CF"), lastNotifiableUpdate |-> Str("2024-06-17"),
           valueLow |-> Str("3000"), awardedValue |-> Num(100)]),
      Obj([source |-> Str("CF")]),
      Obj([source |-> Str("FTS"), publishedDate |-> Str("2024-06-14T00:00:00Z"),
           awardedValue |-> Num(2000)]) }

InitBound ==
    /\ pc = "call"
    /\ arg \in [notices : SeqsUpTo(BoundPool, MaxBoundNotices), criteria : BoundCriteria]
    /\ ret = Undefined
    /\ prev = Undefined
    /\ SearchIdle

\* applyFilters(notices, criteria) with date and value bounds
CallApplyFiltersWithBounds ==
    /\ pc = "call"
    /\ ret' = applyFilters(arg.notices, arg.criteria)
    /\ pc' = "return"
    /\ UNCHANGED <<arg, prev, searchVars>>

SpecBound == InitBound /\ [][CallApplyFiltersWithBounds]_vars

\* a given date bound that is a date neither as a day nor as it stands
UnparseableDate(v) ==
    /\ IsString(v) /\ v.s # ""
    /\ DateParse(v.s \o "T00:00:00Z") = NaN
    /\ DateParse(v.s) = NaN

\* a given value bound that is not a number
UnparseableNumber(v) == v = NaN \/ (IsString(v) /\ v.s # "" /\ ToNumber(v) = NaN)

HasUnparseableBound(c) ==
    \/ UnparseableDate(c.dateFrom) \/ UnparseableDate(c.dateTo)
    \/ UnparseableNumber(c.valueFrom) \/ UnparseableNumber(c.valueTo)

\* the criteria with every unparseable bound removed
WithoutUnparseableBounds(c) ==
    [c EXCEPT !.dateFrom = IF UnparseableDate(@) THEN Undefined ELSE @,
              !.dateTo = IF UnparseableDate(@) THEN Undefined ELSE @,
              !.valueFrom = IF UnparseableNumber(@) THEN Undefined ELSE @,
              !.valueTo = IF UnparseableNumber(@) THEN Undefined ELSE @]

\* C27: with a date or value bound that cannot be parsed applyFilters does not
\* throw and returns the list it returns with that bound removed, whatever the
\* other bounds and the notices.
C27_UnparseableBoundIsAbsent ==
    (pc = "return" /\ HasUnparseableBound(arg.criteria)) =>
        /\ IsArray(ret)
        /\ ret = applyFilters(arg.notices, WithoutUnparseableBounds(arg.criteria))

\* free text as the start date and as the lower value, a valid upper value
\* that drops one of two notices, one of them without any value
C27_Witness ==
    /\ pc = "return"
    /\ UnparseableDate(arg.criteria.dateFrom)
    /\ UnparseableNumber(arg.criteria.valueFrom)
    /\ arg.criteria.valueTo = Num(1000)
    /\ arg.criteria.dateTo = Undefined
    /\ Len(arg.notices) = 2
    /\ \E i \in 1..2 : Get(arg.notices[i], "valueLow") = Undefined
                       /\ Get(arg.notices[i], "valueHigh") = Undefined
                       /\ Get(arg.notices[i], "awardedValue") = Undefined
    /\ IsArray(ret) /\ Len(ret.a) = 1
-----------------------------------------------------------------------------
(* Attaching the derived stage and deriving it again *)

\* notices as deriveProcurementStage may be given them, the explicit stage
\* field spelling a stage, nothing, or another word
RederiveNotices ==
    StageNotices
    \cup {Obj([source |-> src, procurementStage |-> Str("constructor"), noticeStatus |-> st]) :
            src \in StageSources, st \in StageStatuses}

InitRederive == pc = "call" /\ arg \in RederiveNotices /\ ret = Undefined /\ SearchIdle

\* route.ts 301-302: { ...notice, procurementStage: stageLabel || null }
AttachStage ==
    /\ pc = "call"
    /\ ret' = WithProcurementStage(arg)
    /\ pc' = IF IsThrown(ret') THEN "thrown" ELSE "attached"
    /\ UNCHANGED <<arg, prev, searchVars>>

\* filters.mjs 71: deriveProcurementStage(notice) on the notice the route built
DeriveAgain ==
    /\ pc = "attached"
    /\ prev' = ret
    /\ ret' = deriveProcurementStage(ret)
    /\ pc' = "rederived"
    /\ UNCHANGED <<arg, searchVars>>

NextRederive == AttachStage \/ DeriveAgain

SpecRederive == InitRederive /\ [][NextRederive]_vars

\* the stage the second derivation gives, null for none
RederivedStage == IF ret = Str("") THEN Null ELSE ret

C28_StableWhenLabel ==
    (pc = "rederived" /\ Get(prev, "procurementStage").js \in {"string", "null"})
        => RederivedStage = Get(prev, "procurementStage")

C28_Reached ==
    /\ pc = "rederived"
    /\ Get(arg, "procurementStage") = Undefined
    /\ Get(prev, "procurementStage") = Str("Award")
    /\ ret = Str("Award")
-----------------------------------------------------------------------------
(* The search page: src/app/page.tsx 150-247, 498-500. The requests differ  *)
(* in their number only; the payload built from the filters is left out.   *)

MaxRequests == 3

\* everything but the page
serverVars == <<pc, nhsOnly, submissions, baseRecords, index, chunk, fetches,
                enriched, outcomes, hits, started, result, arg, ret, prev>>

InitPage == pc = "page" /\ arg = Undefined /\ ret = Undefined /\ SearchIdle

\* the bodies /api/search may answer request id with when the response is ok
ResponseBodies(id) ==
    {Obj([items |-> Arr(<<Obj([id |-> Str("n" \o ToString(id))])>>), count |-> Num(id),
          counts |-> Obj([cf |-> Num(id)])]),
     Obj([items |-> Arr(<<Obj([id |-> Str("n" \o ToString(id))])>>)]),
     Obj([success |-> Bool(TRUE)])}

\* what the try block of request id may throw: the error of a response that is
\* not ok (data?.error || "Failed to retrieve notices."), and a failed fetch
\* or response.json()
RequestErrors(id) ==
    {Thrown("Search " \o ToString(id) \o " failed"), Thrown("Failed to retrieve notices."),
     Thrown("Failed to fetch"), Thrown("")}

\* lines 182-186: a call of search() up to its fetch
StartSearch(abortable) ==
    /\ requestCounterRef < MaxRequests
    /\ requestCounterRef' = requestCounterRef + 1
    /\ page' = [page EXCEPT !.loading = TRUE, !.error = Null]
    /\ requests' = Append(requests, [abortable |-> abortable, state |-> "pending"])

\* lines 237-247: the effect runs at mount and whenever search changes (a
\* filter changed): the clean-up of the effect before it aborts that effect's
\* request and clears its timer, then a new timer is set
RunEffect ==
    /\ pc = "page"
    /\ requests' = [id \in DOMAIN requests |->
                       IF id = debounce.request /\ requests[id].state = "pending"
                       THEN [requests[id] EXCEPT !.state = "aborting"]
                       ELSE requests[id]]
    /\ debounce' = [timer |-> "armed", request |-> 0]
    /\ UNCHANGED <<page, requestCounterRef, serverVars>>

\* lines 239-241: the timer fires and calls search(controller.signal)
DebounceFires ==
    /\ pc = "page"
    /\ debounce.timer = "armed"
    /\ StartSearch(TRUE)
    /\ debounce' = [timer |-> "fired", request |-> requestCounterRef']
    /\ UNCHANGED serverVars

\* lines 498-500: handleManualRefresh calls search() without a signal
handleManualRefresh ==
    /\ pc = "page"
    /\ StartSearch(FALSE)
    /\ UNCHANGED <<debounce, serverVars>>

\* mutant: the response is applied whatever request is the latest
ResponseArrives_Unguarded(id) ==
    /\ pc = "page"
    /\ id \in DOMAIN requests
    /\ requests[id].state = "pending"
    /\ \E data \in ResponseBodies(id) :
           LET itemsData == IF IsArray(Get(data, "items")) THEN Get(data, "items").a ELSE <<>>
           IN  page' = [page EXCEPT
                           !.items = itemsData,
                           !.selectedNoticeId = Null,
                           !.resultCount = IF Get(data, "count").js = "number"
                                           THEN Get(data, "count").n ELSE Len(itemsData),
                           !.counts = Coalesce(Get(data, "counts"), Null),
                           !.loading = IF requestCounterRef = id THEN FALSE ELSE @]
    /\ requests' = [requests EXCEPT ![id].state =
                       IF requestCounterRef = id THEN "applied" ELSE "ignored"]
    /\ UNCHANGED <<requestCounterRef, debounce, serverVars>>

\* lines 198-216, 227-231: the ok response of request id arrives
ResponseArrives(id) ==
    /\ pc = "page"
    /\ id \in DOMAIN requests
    /\ requests[id].state = "pending"
    /\ IF requestCounterRef = id
       THEN \E data \in ResponseBodies(id) :
                LET itemsData ==
                        IF IsArray(Get(data, "items")) THEN Get(data, "items").a ELSE <<>>
                IN  page' = [page EXCEPT
                                !.items = itemsData,
                                !.selectedNoticeId = Null,
                                !.resultCount = IF Get(data, "count").js = "number"
                                                THEN Get(data, "count").n ELSE Len(itemsData),
                                !.counts = Coalesce(Get(data, "counts"), Null),
                                !.loading = FALSE]
       ELSE UNCHANGED page
    /\ requests' = [requests EXCEPT ![id].state =
                       IF requestCounterRef = id THEN "applied" ELSE "ignored"]
    /\ UNCHANGED <<requestCounterRef, debounce, serverVars>>

\* lines 206-208, 217-231: the try block of request id throws something other
\* than an AbortError
RequestFails(id) ==
    /\ pc = "page"
    /\ id \in DOMAIN requests
    /\ requests[id].state = "pending"
    /\ IF requestCounterRef = id
       THEN \E err \in RequestErrors(id) :
                page' = [page EXCEPT
                            !.error = IF err.msg # "" THEN Str(err.msg)
                                      ELSE Str("Unable to fetch notices. Please try again."),
                            !.counts = Null,
                            !.loading = FALSE]
       ELSE UNCHANGED page
    /\ requests' = [requests EXCEPT ![id].state =
                       IF requestCounterRef = id THEN "failed" ELSE "ignored"]
    /\ UNCHANGED <<requestCounterRef, debounce, serverVars>>

\* lines 217-219, 227-231: the fetch of an aborted request rejects with an
\* AbortError; the catch block returns and the finally block runs
AbortArrives(id) ==
    /\ pc = "page"
    /\ id \in DOMAIN requests
    /\ requests[id].state = "aborting"
    /\ page' = [page EXCEPT !.loading = IF requestCounterRef = id THEN FALSE ELSE @]
    /\ requests' = [requests EXCEPT ![id].state = "aborted"]
    /\ UNCHANGED <<requestCounterRef, debounce, serverVars>>

\* lines 249-251: a click on a row selects it, a second one deselects it
handleSelectNotice ==
    /\ pc = "page"
    /\ \E i \in DOMAIN page.items :
           page' = [page EXCEPT !.selectedNoticeId =
                       IF @ = Get(page.items[i], "id") THEN Null
                       ELSE Get(page.items[i], "id")]
    /\ UNCHANGED <<requestCounterRef, requests, debounce, serverVars>>

NextPage ==
    \/ RunEffect
    \/ DebounceFires
    \/ handleManualRefresh
    \/ \E id \in 1..MaxRequests : ResponseArrives(id)
    \/ \E id \in 1..MaxRequests : RequestFails(id)
    \/ \E id \in 1..MaxRequests : AbortArrives(id)
    \/ handleSelectNotice

SpecPage == InitPage /\ [][NextPage]_vars

\* what a request may write
Written == <<page.items, page.resultCount, page.counts, page.error>>

\* request id settles in this step: response, failure or abort
Settles(id) ==
    /\ id \in DOMAIN requests
    /\ requests[id].state \in {"pending", "aborting"}
    /\ requests'[id].state \notin {"pending", "aborting"}

\* C29: whatever the interleaving of debounced and manual requests and of
\* their responses, items, resultCount, counts and error are written only by
\* the most recently started request (when it starts and when it settles), a
\* response or failure of an older request leaves them as they are, and
\* loading is false once the most recently started request has settled.
C29_OnlyLatestWrites ==
    [][/\ \A id \in 1..MaxRequests :
              (Settles(id) /\ id # requestCounterRef) => Written' = Written
       /\ Written' # Written =>
              \/ requestCounterRef' = requestCounterRef + 1
              \/ Settles(requestCounterRef)
       /\ Settles(requestCounterRef) => ~page'.loading]_vars

\* the response of the first (debounced, not aborted) request arrived after a
\* manual request had started and had been answered: the page shows the
\* manual request's notices
C29_Witness ==
    /\ pc = "page"
    /\ requestCounterRef = 2
    /\ requests[1] = [abortable |-> TRUE, state |-> "ignored"]
    /\ requests[2] = [abortable |-> FALSE, state |-> "applied"]
    /\ page.items = <<Obj([id |-> Str("n2")])>>
    /\ page.resultCount = 2
    /\ ~page.loading
-----------------------------------------------------------------------------
(* The enrichment loop when every detail fetch settles *)

MaxLiveSubmissions == 7

\* the search on a listing of up to MaxLiveSubmissions entries
InitLive == Init /\ Len(submissions) <= MaxLiveSubmissions

\* the search under fair scheduling: a detail fetch in flight settles in the
\* end (the premise), and the continuation of a settled await runs (the
\* event loop); nothing is assumed of the listing request
SpecLive ==
    /\ InitLive
    /\ [][Next]_vars
    /\ WF_vars(StartChunk)
    /\ WF_vars(DetailSettles)
    /\ WF_vars(GatherChunk)
    /\ WF_vars(Finish)

\* hits, before the authority filter, holds one notice per base record
OneNoticePerBaseRecord ==
    /\ Len(hits) = Len(baseRecords)
    /\ \A j \in 1..Len(baseRecords) : Get(hits[j], "id") = Get(baseRecords[j], "id")

\* C30: if every detail fetch settles in the end (package, not found or
\* failure), the enrichment loop terminates and searchFindATender returns,
\* hits holding exactly one notice per base record with an id before the
\* authority filter is applied.
C30_LoopTerminates ==
    (pc = "loop") ~> (pc = "done" /\ IsObject(result) /\ OneNoticePerBaseRecord)

\* a search of more than one chunk has returned; one detail request was
\* answered not found, one failed, one gave a package
C30_Witness ==
    /\ pc = "done"
    /\ Len(baseRecords) > DETAIL_CHUNK_SIZE
    /\ \E j \in 1..Len(outcomes) : outcomes[j] = Null
    /\ \E j \in 1..Len(outcomes) : IsThrown(outcomes[j])
    /\ \E j \in 1..Len(outcomes) : IsObject(outcomes[j])
    /\ OneNoticePerBaseRecord
-----------------------------------------------------------------------------
(* POST /api/search *)

\* raw Contracts Finder hits: upstream items with or without the fields the
\* stage is derived from, one with a type spelling an Object.prototype name,
\* some carrying an upstream stage text of their own
ContractsFinderHits ==
    {Obj([id |-> Str("cf-1"), title |-> title, noticeType |-> type, noticeStatus |-> status,
          publishedDate |-> Str("2024-05-01T00:00:00Z"), awardedDate |-> awarded,
          start |-> start, procurementStage |-> stage]) :
        title \in {Undefined, Str("Ward refit &amp; repairs")},
        type \in {Undefined, Str("Contract"), Str("Opportunity"), Str("Pipeline"),
                  Str("EarlyEngagement"), Str("constructor"), Str("Banana")},
        status \in {Undefined, Str("Open"), Str("Awarded"), Str("Closed"), Str("Withdrawn")},
        awarded \in {Undefined, Str("2024-06-01T00:00:00Z")},
        start \in {Undefined, Str("2024-07-01T00:00:00Z")},
        stage \in {Undefined, Str("Banana stage")}}

\* raw Find a Tender hits: what searchFindATender returns with nhsOnly, the
\* projections of release packages that pass the authority filter
FindATenderHits ==
    LET withOptional(fields, name, value) ==
            IF value = Undefined THEN fields ELSE (name :> value) @@ fields
        release(tag, status, awards, contracts) ==
            Obj(withOptional(withOptional(withOptional(
                [id |-> Str("N1"),
                 date |-> Str("2024-06-02T10:00:00Z"),
                 tender |-> Obj(withOptional(
                     [title |-> Str("NHS supplies &lt;2024&gt;")], "status", status))],
                "tag", tag), "awards", awards), "contracts", contracts))
        projected ==
            {mapReleasePackageToNotice(BaseRecord(Entry(1)),
                 Obj([releases |-> Arr(<<release(tag, status, awards, contracts)>>)])) :
                tag \in {Undefined, Arr(<<Str("tender")>>), Arr(<<Str("award")>>),
                         Arr(<<Str("planning"), Str("tender")>>), Arr(<<Str("constructor")>>)},
                status \in {Undefined, Str("active"), Str("complete"), Str("cancelled"),
                            Str("Banana")},
                awards \in {Undefined, Arr(<<Obj([status |-> Str("active"),
                                                  date |-> Str("2024-08-01T00:00:00Z")])>>)},
                contracts \in {Undefined,
                               Arr(<<Obj([period |-> Obj([startDate |-> Str("2024-09-01"),
                                                          endDate |-> Str("2025-09-01")])])>>)}}
    IN  {notice \in projected : matchesPreferredAuthority(notice)}

\* request bodies: every optional field may be missing
PostBodies ==
    {[keywords |-> <<>>],
     [procurementStages |-> <<"Tender">>],
     [sources |-> <<"CF">>, statuses |-> <<"open">>],
     [keywords |-> <<"nhs">>, sources |-> <<"FTS">>, dateFrom |-> Str("2024-01-01")]}

\* a request with what the two searches return for it: one hit of either
\* source, or one of each
PostRequests ==
    LET plain(hit) == /\ Get(hit, "title") # Undefined
                      /\ IsNullish(Get(hit, "start"))
                      /\ IsNullish(Get(hit, "awardedDate"))
        hitLists == {<<<<c>>, <<>>>> : c \in ContractsFinderHits}
                    \cup {<<<<>>, <<f>>>> : f \in FindATenderHits}
                    \cup {<<<<c>>, <<f>>>> : c \in {h \in ContractsFinderHits : plain(h)},
                                             f \in {h \in FindATenderHits : plain(h)}}
    IN  {[body |-> body, cf |-> pair[1], fts |-> pair[2]] :
            body \in PostBodies, pair \in hitLists}

InitRoute == pc = "request" /\ arg \in PostRequests /\ ret = Undefined /\ SearchIdle

HandlePost ==
    /\ pc = "request"
    /\ ret' = POST(arg.body, arg.cf, arg.fts)
    /\ pc' = "responded"
    /\ UNCHANGED <<searchVars, arg, prev>>

SpecRoute == InitRoute /\ [][HandlePost]_vars

\* C8: every notice in a response of the search route has procurementStage
\* equal to one of the six stage labels or null.
C8_StageLabelOrNull ==
    (pc = "responded" /\ ret.o.success.b) =>
        \A i \in 1..Len(ret.o.items.a) :
            Get(ret.o.items.a[i], "procurementStage")
                \in {Str(label) : label \in StageLabelSet} \cup {Null}

\* a response with a Contracts Finder notice whose upstream stage text and
\* type name no stage (null is attached) next to a Find a Tender notice
\* with a derived label
C8_Witness ==
    /\ pc = "responded"
    /\ ret.o.success.b
    /\ Len(ret.o.items.a) = 2
    /\ Get(arg.cf[1], "procurementStage") = Str("Banana stage")
    /\ \E i, k \in 1..2 :
           /\ Get(ret.o.items.a[i], "source") = Str("CF")
           /\ Get(ret.o.items.a[i], "procurementStage") = Null
           /\ Get(ret.o.items.a[k], "source") = Str("FTS")
           /\ Get(ret.o.items.a[k], "procurementStage") = Str("Award")

====
